---- MODULE Spec2Model ----
(***************************************************************************)
(* kiromon: the debounce / notification state machines of the standalone   *)
(* wrapper (wrapper.go, runWrapper status updater) and of the monitor      *)
(* (notify.go, checkAndNotify), and the status store's atomic write and    *)
(* shared-lock read (notify.go, atomicWriteFile / readStatusWithLock).     *)
(*                                                                         *)
(* Specifications: Spec (the two notification state machines), StoreSpec   *)
(* (one writer and two readers of a status file), RoundTripSpec (a record  *)
(* written, then read), LifeSpec (one wrapper process from start to exit   *)
(* and a consumer of its file), PassSpec (the passes of cleanup, listing,  *)
(* views and daemon over a status directory), CommandSpec (the             *)
(* notification state machines with the commands they start), PromptSpec   *)
(* (matchPrompt and the tick's classification), StripSpec (stripAnsi),     *)
(* ScreenSpec (the screen buffer), FormatSpec (message rendering),         *)
(* LiveSpec (Spec with a fair wrapper tick), ExitSpec (the wrapper's exit  *)
(* path under every result of cmd.Wait), RelaySpec (the PTY relay's line   *)
(* buffer), RecordSpec (the records the wrapper writes), LockSpec (the     *)
(* wrapper's goroutines and their mutexes), DaemonSpec (the monitor daemon *)
(* with its not_found / terminated markers).                               *)
(*                                                                         *)
(* Time is counted in units of one StatusInterval (500 ms).  The zero      *)
(* time.Time{} is 0; the clock starts at 1.  The empty Go string is "".    *)
(***************************************************************************)
EXTENDS Integers, Sequences, FiniteSets, TLC

StateRunning == "running"
StateWaiting == "waiting"
StateStopped == "stopped"
ObservedStates == {StateRunning, StateWaiting}

\* config.go: StatusInterval = 500 ms is the unit of time, DebounceDelay = 1 s
StatusInterval == 1
DebounceDelay == 2

\* bounds of the model
MaxTicks == 5
MaxWrites == 2

\* a tick is delivered on time or up to MaxDelay intervals after the last one
MaxDelay == 2
TickDelays == {d * StatusInterval : d \in 1..MaxDelay}

\* message templates: sequences of literal text and placeholder tokens
NoMsg == << >>
StartTemplate == << "start", "{time}" >>
EndTemplate == << "end", "{duration}" >>
\* the minimum-duration thresholds a StandaloneConfig is drawn from
MinDurations == {0, 5 * StatusInterval}

VARIABLES
    \* ---- environment of the notification state machines
    now,                \* wall clock
    obsHist,            \* the per-tick observations so far: [state, at]
    config,             \* Command, StartMsg, EndMsg, MinDuration
    \* ---- standalone wrapper (runWrapper, status updater goroutine)
    lastState,          \* "" before the first tick
    lastNotifiedState,
    stateChangeTime,
    TaskStartTime,      \* standalone.TaskStartTime
    wSeen,              \* number of observations the tick loop has consumed
    wFired,             \* notification commands started: [tick, state, msg]
    wSkipped,           \* log: notifications skipped as too short: [tick, state]
    wWritten,           \* the states the tick loop handed to updateStatus
    wAssigned,          \* history: the values assigned to lastNotifiedState
    cmds,               \* per process, the number of its notification commands
                        \* that are running, have succeeded, have failed
    \* ---- monitor (checkAndNotify, one pid)
    lastStates,         \* lastStates[status.PID], "" when absent
    taskStartTimes,     \* taskStartTimes[status.PID], 0 when absent
    mSeen,
    mFired,
    \* ---- status store
    dir,                \* directory: name -> inode number, 0 when absent
    inodes,             \* inode number -> [data, mode]
    wr,                 \* the writer inside atomicWriteFile
    rd,                 \* the readers inside readStatusWithLock
    \* ---- one wrapper process and a concurrent consumer of its status file
    clock,              \* time.Now
    child,              \* the wrapped command: none, alive, zombie, reaped
    mainPc,             \* position of runWrapper's own goroutine
    mainRec,            \* the Status its updateStatus has built
    ticker,             \* the status updater goroutine: [pc, n, rec]
    sfile,              \* what statusFile shows: NoStatus or << record >>
    fileLog,            \* history: the writes and removals on statusFile
    cons,               \* a consumer of the status file: [pc, n]
    waitErr,            \* the error cmd.Wait returned: [kind, code]
    exitCode,           \* wrapper.go 21: the exit code Run returns
    \* ---- the status directory as the consumers' passes see it
    entries,            \* file name -> [present, old, content]
    alive,              \* the pids kill(pid, 0) succeeds for
    outcome,            \* history: the last pass, its input and its result
    \* ---- prompt detection (matchPrompt and the tick that classifies)
    line,               \* a line of output, a sequence of characters
    customPattern,      \* standalone.PromptPattern: << >> (nil) or << re >>
    defaultPatterns,    \* the patterns handed to compilePromptPatterns
    matched,            \* result of matchPrompt on line: << >> or << bool >>
    currentLine,        \* wrapper.go: currentLine
    tickLine,           \* the line the last tick sampled: << >> or << line >>
    promptMatched,      \* the last tick's promptMatched: << >> or << bool >>
    tickState,          \* the last tick's state, "" before the first tick
    \* ---- stripAnsi
    raw,                \* the bytes received, a sequence of characters
    once,               \* stripAnsi(raw): << >> or << string >>
    twice,              \* stripAnsi(stripAnsi(raw)): << >> or << string >>
    \* ---- the screen buffer (addLine, updateStatus)
    screenBuffer,       \* wrapper.go: screenBuffer
    arrived,            \* history: the non-empty stripped lines, in order
    lastCall,           \* history: the last call, the buffer before it
    lastLines,          \* LastLines of the last record: << >> or << lines >>
    \* ---- message rendering
    fNow,               \* time.Now, seconds since midnight of day 0
    fStart,             \* the task start, 0 for the zero time
    fMsg,               \* the message template
    fOut,               \* history: the last call and its result
    \* ---- the output relay, the tick and the records of one wrapper
    ptyBuf,             \* wrapper.go 117: the bytes of buf not yet processed
    lineBuf,            \* wrapper.go 118: lineBuf
    received,           \* history: the bytes read from the pty, in order
    relayPc,            \* the relay goroutine: read, process
    tickPc,             \* the status updater goroutine: idle, sampled
    runPc,              \* runWrapper's own goroutine: init, wait, done
    wrote,              \* the records handed to updateStatus, the last of
                        \* each writer: [init, tick, exit]
    \* ---- the read/write locks of the wrapper and the tasks that use them
    locks,              \* mutex -> [writer, readers, pending]
    tasks               \* task -> [phase, ops]: where it is in its loop and
                        \* the lock operations and accesses it has yet to do

notifyVars == << now, obsHist, config, lastState, lastNotifiedState,
                 stateChangeTime, TaskStartTime, wSeen, wFired, wSkipped,
                 wWritten, wAssigned, cmds, lastStates, taskStartTimes, mSeen,
                 mFired >>
storeVars == << dir, inodes, wr, rd >>
lifeVars == << clock, child, mainPc, mainRec, ticker, sfile, fileLog, cons,
              waitErr, exitCode >>
passVars == << entries, alive, outcome >>
promptVars == << line, customPattern, defaultPatterns, matched, currentLine,
                 tickLine, promptMatched, tickState >>
stripVars == << raw, once, twice >>
screenVars == << screenBuffer, arrived, lastCall, lastLines >>
formatVars == << fNow, fStart, fMsg, fOut >>
relayVars == << ptyBuf, lineBuf, received, relayPc, tickPc, runPc, wrote >>
lockVars == << locks, tasks >>
taskVars == << relayVars, lockVars >>
textVars == << promptVars, stripVars, screenVars, formatVars, taskVars >>
vars == << notifyVars, storeVars, lifeVars, passVars, textVars >>

----------------------------------------------------------------------------
(* notify.go 11-62: replacePlaceholders, formatTimeJapanese and              *)
(* formatDuration.  A rendered string is the sequence of its pieces, the    *)
(* decimal numbers and the unit marks; an instant is a number of            *)
(* StatusIntervals since a local midnight, 0 being the zero time.           *)
\* wrapper.go 165: DebounceDelay is one second
Second == DebounceDelay
HourMark == "ji"
HoursMark == "jikan"
MinuteMark == "fun"
SecondMark == "byo"

\* Go's integer division and remainder truncate toward zero
Quo(a, b) == IF a >= 0 THEN a \div b ELSE -((-a) \div b)
Rem(a, b) == a - b * Quo(a, b)

\* notify.go 33-42 and 52-61: the parts that are kept, joined
JoinParts(h, m, s, hourMark) ==
    (IF h > 0 THEN << ToString(h), hourMark >> ELSE << >>)
    \o (IF m > 0 \/ h > 0 THEN << ToString(m), MinuteMark >> ELSE << >>)
    \o << ToString(s), SecondMark >>

\* notify.go 30-43: the hour, minute and second of the wall clock
formatTimeJapanese(t) ==
    JoinParts((t \div (3600 * Second)) % 24, (t \div (60 * Second)) % 60,
              (t \div Second) % 60, HourMark)

\* mutant: a zero minute is dropped even when there are hours
formatDuration_DropsZeroMinute(d) ==
    LET totalSeconds == Quo(d, Second)
        h == Quo(totalSeconds, 3600)
        m == Quo(Rem(totalSeconds, 3600), 60)
        s == Rem(totalSeconds, 60)
    IN  (IF h > 0 THEN << ToString(h), HoursMark >> ELSE << >>)
        \o (IF m > 0 THEN << ToString(m), MinuteMark >> ELSE << >>)
        \o << ToString(s), SecondMark >>

\* notify.go 46-62
formatDuration(d) ==
    LET totalSeconds == Quo(d, Second)
    IN  JoinParts(Quo(totalSeconds, 3600), Quo(Rem(totalSeconds, 3600), 60),
                  Rem(totalSeconds, 60), HoursMark)

\* notify.go 16-24: what a token of the message becomes
RenderToken(tok, taskStart, t) ==
    IF tok = "{time}" THEN formatTimeJapanese(t)
    ELSE IF tok = "{duration}"
         THEN IF taskStart # 0 THEN formatDuration(t - taskStart)
              ELSE << "0", SecondMark >>
         ELSE << tok >>

\* mutant: only the first {duration} is replaced
RECURSIVE replacePlaceholders_FirstOnly(_, _, _)
replacePlaceholders_FirstOnly(msg, taskStart, t) ==
    IF msg = << >> THEN << >>
    ELSE IF Head(msg) = "{duration}"
    THEN RenderToken(Head(msg), taskStart, t) \o Tail(msg)
    ELSE RenderToken(Head(msg), taskStart, t)
         \o replacePlaceholders_FirstOnly(Tail(msg), taskStart, t)

\* notify.go 12-27; the result is empty exactly when the template is empty
RECURSIVE replacePlaceholders(_, _, _)
replacePlaceholders(msg, taskStart, t) ==
    IF msg = << >> THEN << >>
    ELSE RenderToken(Head(msg), taskStart, t)
         \o replacePlaceholders(Tail(msg), taskStart, t)

----------------------------------------------------------------------------
(* wrapper.go 190-260: one evaluation of the notification rule by the tick  *)
(* loop.  w is the loop's state, state the observation of this tick, t the    *)
(* current time; the result is the new loop state plus the messages handed  *)
(* to the notification command at this tick.                                *)

\* mutants: no dwell is required; the dwell must exceed the delay; no dwell
\* is ever long enough
DebouncePassed_Always(changedAt, t) == TRUE
DebouncePassed_Never(changedAt, t) == FALSE
DebouncePassed_Strict(changedAt, t) == t - changedAt > DebounceDelay

\* wrapper.go 211: time.Since(stateChangeTime) >= debounceDelay
DebouncePassed(changedAt, t) == t - changedAt >= DebounceDelay

\* mutant: the first observation is not recorded as notified
InitialObservation_Unnotified(w, state, t) ==
    [lastState |-> state, lastNotifiedState |-> "", stateChangeTime |-> t,
     TaskStartTime |-> t, notify |-> << >>, skipped |-> FALSE,
     assigned |-> << >>]

\* wrapper.go 192-204: first iteration
InitialObservation(w, state, t) ==
    [lastState |-> state, lastNotifiedState |-> state, stateChangeTime |-> t,
     TaskStartTime |-> t, notify |-> << >>, skipped |-> FALSE,
     assigned |-> << state >>]

\* mutant: the debounce timer is not reset
StateChanged_KeepsTimer(w, state, t) ==
    [w EXCEPT !.lastState = state, !.notify = << >>]

\* mutant: a raw change of state starts a new task interval
StateChanged_RestartsTask(w, state, t) ==
    [w EXCEPT !.lastState = state, !.stateChangeTime = t, !.TaskStartTime = t,
              !.notify = << >>]

\* wrapper.go 205-208: the state changed, reset the debounce timer
StateChanged(w, state, t) ==
    [w EXCEPT !.lastState = state, !.stateChangeTime = t, !.notify = << >>]

\* mutant: the command runs for an empty message too
CommandCalls_EmptyMessage(cfg, message) ==
    IF cfg.Command # "" THEN << message >> ELSE << >>

\* wrapper.go 240-255: the command runs only for a non-empty message and a
\* configured command
CommandCalls(cfg, message) ==
    IF message # << >> /\ cfg.Command # "" THEN << message >> ELSE << >>

\* mutant: a notification skipped as too short is not marked as notified
StableState_SkipStaysDue(w, state, t, cfg) ==
    IF ~DebouncePassed(w.stateChangeTime, t)
    THEN [w EXCEPT !.notify = << >>]
    ELSE IF state = StateWaiting
    THEN IF cfg.MinDuration > 0 /\ t - w.TaskStartTime < cfg.MinDuration
         THEN [w EXCEPT !.notify = << >>, !.skipped = TRUE]
         ELSE [w EXCEPT !.lastNotifiedState = state, !.assigned = << state >>,
                        !.notify = CommandCalls(cfg,
                            replacePlaceholders(cfg.EndMsg, w.TaskStartTime, t))]
    ELSE [w EXCEPT !.lastNotifiedState = state, !.assigned = << state >>,
                   !.TaskStartTime = t,
                   !.notify = CommandCalls(cfg,
                       replacePlaceholders(cfg.StartMsg, w.TaskStartTime, t))]

\* wrapper.go 209-258: the state is stable and not yet notified
StableState(w, state, t, cfg) ==
    IF ~DebouncePassed(w.stateChangeTime, t)
    THEN [w EXCEPT !.notify = << >>]
    ELSE IF state = StateWaiting
    THEN IF cfg.MinDuration > 0 /\ t - w.TaskStartTime < cfg.MinDuration
         THEN [w EXCEPT !.lastNotifiedState = state, !.assigned = << state >>,
                        !.notify = << >>, !.skipped = TRUE]
         ELSE [w EXCEPT !.lastNotifiedState = state, !.assigned = << state >>,
                        !.notify = CommandCalls(cfg,
                            replacePlaceholders(cfg.EndMsg, w.TaskStartTime, t))]
    ELSE [w EXCEPT !.lastNotifiedState = state, !.assigned = << state >>,
                   !.TaskStartTime = t,
                   !.notify = CommandCalls(cfg,
                       replacePlaceholders(cfg.StartMsg, w.TaskStartTime, t))]

\* mutant: the observation is compared with the notified state only, so a
\* raw change does not restart the dwell
WrapperStep_NoChangeBranch(w, state, t, cfg) ==
    IF w.lastState = "" THEN InitialObservation(w, state, t)
    ELSE IF w.lastNotifiedState # state
    THEN StableState([w EXCEPT !.lastState = state], state, t, cfg)
    ELSE [w EXCEPT !.lastState = state, !.notify = << >>]

\* mutant: a stable state is notified again at every tick
WrapperStep_Renotifies(w, state, t, cfg) ==
    IF w.lastState = "" THEN InitialObservation(w, state, t)
    ELSE IF w.lastState # state THEN StateChanged(w, state, t)
    ELSE StableState(w, state, t, cfg)

\* wrapper.go 190-260
WrapperStep(w, state, t, cfg) ==
    IF w.lastState = "" THEN InitialObservation(w, state, t)
    ELSE IF w.lastState # state THEN StateChanged(w, state, t)
    ELSE IF w.lastNotifiedState # state THEN StableState(w, state, t, cfg)
    ELSE [w EXCEPT !.notify = << >>]

----------------------------------------------------------------------------
(* notify.go 76-126: checkAndNotify for one pid.  m holds lastStates[pid]   *)
(* and taskStartTimes[pid].                                                 *)
MonitorMessage(m, currentState, t, cfg) ==
    IF currentState = StateWaiting
    THEN replacePlaceholders(cfg.EndMsg, m.taskStartTimes, t)
    ELSE IF currentState = StateRunning /\ m.lastStates = StateWaiting
    THEN replacePlaceholders(cfg.StartMsg, m.taskStartTimes, t)
    ELSE << >>

MonitorTaskStart(m, currentState, t) ==
    IF currentState = StateRunning /\ m.lastStates \in {StateWaiting, ""}
    THEN t
    ELSE m.taskStartTimes

\* README.md 586-588, 595-597: what checkStatus remembers for a pid whose
\* file is missing, or whose process is gone
NotFound == "not_found"
Terminated == "terminated"
Markers == {NotFound, Terminated}

\* mutant: a marker counts as no previous observation
MonitorStep_MarkerIsAbsence(m, currentState, t, cfg) ==
    LET seen == IF m.lastStates \in Markers THEN "" ELSE m.lastStates
    IN  IF seen = currentState
        THEN [m EXCEPT !.notify = << >>]
        ELSE [lastStates |-> currentState,
              taskStartTimes |-> IF currentState = StateRunning
                                    /\ seen \in {StateWaiting, ""}
                                 THEN t ELSE m.taskStartTimes,
              notify |-> << >>]

MonitorStep(m, currentState, t, cfg) ==
    IF m.lastStates = currentState
    THEN [m EXCEPT !.notify = << >>]
    ELSE [lastStates |-> currentState,
          taskStartTimes |-> MonitorTaskStart(m, currentState, t),
          notify |-> IF m.lastStates # ""
                     THEN CommandCalls(cfg, MonitorMessage(m, currentState, t, cfg))
                     ELSE << >>]

----------------------------------------------------------------------------
Configs ==
    [Command : {"", "notify-send"}, StartMsg : {NoMsg, StartTemplate},
     EndMsg : {NoMsg, EndTemplate}, MinDuration : MinDurations]

NoCommands == [running |-> 0, succeeded |-> 0, failed |-> 0]

InitNotify ==
    /\ now = 1
    /\ obsHist = << >>
    /\ config \in Configs
    /\ lastState = ""
    /\ lastNotifiedState = ""
    /\ stateChangeTime = 0
    /\ TaskStartTime = 0
    /\ wSeen = 0
    /\ wFired = << >>
    /\ wSkipped = << >>
    /\ wWritten = << >>
    /\ wAssigned = << >>
    /\ cmds = [w |-> NoCommands, m |-> NoCommands]
    /\ lastStates = ""
    /\ taskStartTimes = 0
    /\ mSeen = 0
    /\ mFired = << >>

----------------------------------------------------------------------------
(* The status store: one directory, the status file of one wrapper, the     *)
(* temporary files of atomicWriteFile.  A file name is bound to an inode; a *)
(* descriptor keeps its inode whatever happens to the name afterwards.      *)
(* File content is a sequence of chunks, the unit of one read or write.     *)

Readers == {"r1", "r2"}
\* permission bits a caller asks for: 0600 (updateStatus) and 0644
Perms == {"0600", "0644"}
\* os.CreateTemp creates its file with mode 0600
TempMode == "0600"

NoName == << >>
Target == << "kiro-cli-1.json" >>
\* mutant: the data is written under the final name
tempName_InPlace(filename, seq) == filename
\* notify.go 271-275: the name os.CreateTemp picks for the seq-th call, in
\* the directory of filename, never the name of an existing file
tempName(filename, seq) == << ".kiromon-", ToString(seq), ".tmp" >>
Names == {Target} \cup {tempName(Target, n) : n \in 1..MaxWrites}

\* A Go string is a sequence of units: a unit is a run of plain ASCII, the
\* character "<", a byte that is not valid UTF-8, or the character U+FFFD.
InvalidByte == "\\xff"
ReplacementChar == "U+FFFD"
GoString(s) == << s >>

\* encoding/json, string encoding: "<" is written as an escape, an invalid
\* byte is written as the escape of U+FFFD, everything else as itself
EncodeUnit(u) ==
    IF u = "<" THEN "\\u003c"
    ELSE IF u = InvalidByte THEN "\\ufffd"
    ELSE u
\* encoding/json, string decoding: an escape yields the character it names
DecodeUnit(j) ==
    IF j = "\\u003c" THEN "<"
    ELSE IF j = "\\ufffd" THEN ReplacementChar
    ELSE j
EncodeString(s) == [i \in 1..Len(s) |-> EncodeUnit(s[i])]
DecodeString(j) == [i \in 1..Len(j) |-> DecodeUnit(j[i])]

\* time.Time: the wall-clock instant and the monotonic reading time.Now
\* attaches (0: none).  MarshalJSON writes the instant as RFC 3339 with
\* nanoseconds; UnmarshalJSON yields a value without monotonic reading.
Walls == 0..(MaxWrites + 1)
EncodeTime(t) == ToString(t.wall)
DecodeTime(j) == [wall |-> CHOOSE w \in Walls : ToString(w) = j, mono |-> 0]
Now(t) == [wall |-> t, mono |-> t + 1]

\* float64, in tenths: the shortest decimal text that parses back to it
Tenths == {0, 20, 25}
EncodeFloat(x) ==
    IF x % 10 = 0 THEN ToString(x \div 10)
    ELSE ToString(x \div 10) \o "." \o ToString(x % 10)
DecodeFloat(j) == CHOOSE x \in Tenths : EncodeFloat(x) = j

Pids == 0..2
EncodeInt(n) == ToString(n)
DecodeInt(j) == CHOOSE n \in Pids : ToString(n) = j
EncodeBool(b) == IF b THEN "true" ELSE "false"
DecodeBool(j) == j = "true"

\* notify.go 142-152: the JSON object of a Status, one member per field
EncodeObject(status) ==
    [state |-> EncodeString(status.State),
     command |-> EncodeString(status.Command),
     pid |-> EncodeInt(status.PID),
     start_time |-> EncodeTime(status.StartTime),
     updated_at |-> EncodeTime(status.UpdatedAt),
     last_lines |-> [i \in 1..Len(status.LastLines) |->
                       EncodeString(status.LastLines[i])],
     last_line |-> EncodeString(status.LastLine),
     prompt_matched |-> EncodeBool(status.PromptMatched),
     idle_seconds |-> EncodeFloat(status.IdleSeconds)]

\* mutant: the decoder loses the last_line member
DecodeObject_DropsLastLine(object) ==
    [State |-> DecodeString(object.state),
     Command |-> DecodeString(object.command),
     PID |-> DecodeInt(object.pid),
     StartTime |-> DecodeTime(object.start_time),
     UpdatedAt |-> DecodeTime(object.updated_at),
     LastLines |-> [i \in 1..Len(object.last_lines) |->
                      DecodeString(object.last_lines[i])],
     LastLine |-> << >>,
     PromptMatched |-> DecodeBool(object.prompt_matched),
     IdleSeconds |-> DecodeFloat(object.idle_seconds)]

\* notify.go 142-152, 258-259: the Status a JSON object decodes to
DecodeObject(object) ==
    [State |-> DecodeString(object.state),
     Command |-> DecodeString(object.command),
     PID |-> DecodeInt(object.pid),
     StartTime |-> DecodeTime(object.start_time),
     UpdatedAt |-> DecodeTime(object.updated_at),
     LastLines |-> [i \in 1..Len(object.last_lines) |->
                      DecodeString(object.last_lines[i])],
     LastLine |-> DecodeString(object.last_line),
     PromptMatched |-> DecodeBool(object.prompt_matched),
     IdleSeconds |-> DecodeFloat(object.idle_seconds)]

\* no record: the nil *Status of an error return
NoStatus == << >>

\* wrapper.go 332: json.MarshalIndent of the record, as the chunks of the
\* file: the opening brace, the members, the closing brace
Marshal(status) == << "{", EncodeObject(status), "}" >>
\* notify.go 258-261: json.Unmarshal fails unless the bytes are one complete
\* object
Unmarshal(data) ==
    IF Len(data) = 3 /\ data[1] = "{" /\ data[3] = "}"
    THEN [ok |-> TRUE, status |-> << DecodeObject(data[2]) >>]
    ELSE [ok |-> FALSE, status |-> NoStatus]

\* wrapper.go 320-330: the record updateStatus builds at its n-th call
TickStatus(n) ==
    [State |-> GoString(StateRunning), Command |-> GoString("kiro-cli"),
     PID |-> 1, StartTime |-> Now(0), UpdatedAt |-> Now(n),
     LastLines |-> << >>, LastLine |-> << >>, PromptMatched |-> FALSE,
     IdleSeconds |-> 0]

\* records a caller may hand to the store: each field takes several values,
\* the command (the wrapper's arguments joined) with "<" and with a byte that
\* is not valid UTF-8
Statuses ==
    {TickStatus(1),
     [TickStatus(2) EXCEPT !.State = GoString(StateWaiting),
                           !.LastLine = << ">" >>, !.PromptMatched = TRUE,
                           !.LastLines = << << "a" >>, << ">" >> >>,
                           !.IdleSeconds = 25, !.PID = 2],
     [TickStatus(3) EXCEPT !.State = GoString(StateStopped),
                           !.Command = << "cat", "<", "in" >>,
                           !.IdleSeconds = 20],
     [TickStatus(2) EXCEPT !.Command = << "cat ", InvalidByte >>],
     [TickStatus(1) EXCEPT !.Command = << "echo ", ReplacementChar >>,
                           !.StartTime = [wall |-> 1, mono |-> 0]]}

\* bytes that are not a JSON object, longer than a marshalled record
NotJson == << "not", "json", "at", "all" >>

Content(d, ino, name) == IF d[name] = 0 THEN << >> ELSE ino[d[name]].data
\* what a name shows: whether it exists and, if so, its file's bytes
Stat(d, ino, name) ==
    [exists |-> d[name] # 0, data |-> Content(d, ino, name)]

\* mutants: the cleanup removes the wrong name; the cleanup is missing
cleanupOnReturn_RemovesTarget(d, tmpName) ==
    IF tmpName # NoName THEN [d EXCEPT ![Target] = 0] ELSE d
cleanupOnReturn_Skipped(d, tmpName) == d

\* notify.go 278-282: the deferred cleanup, run at every return after the
\* temp file was created; tmpName is "" once the rename succeeded
cleanupOnReturn(d, tmpName) ==
    IF tmpName # NoName THEN [d EXCEPT ![tmpName] = 0] ELSE d

\* os.Rename: newname is bound to the inode of oldname in one step
Rename(d, oldname, newname) ==
    IF oldname = newname THEN d
    ELSE [d EXCEPT ![newname] = d[oldname], ![oldname] = 0]

InFlight == {"write", "sync", "close", "chmod", "rename"}

InitWriter ==
    wr = [pc |-> "idle", seq |-> 0, status |-> NoStatus,
          data |-> << >>, perm |-> TempMode,
          tmpName |-> NoName, fd |-> 0, err |-> FALSE,
          made |-> NoName, old |-> Stat(dir, inodes, Target),
          committed |-> << >>]

InitReaders ==
    rd = [r \in Readers |->
            [pc |-> "idle", fd |-> 0, locked |-> FALSE, data |-> << >>,
             atOpen |-> 0, status |-> NoStatus, err |-> FALSE]]

InitStore ==
    /\ dir = [n \in Names |-> 0]
    /\ inodes = << >>
    /\ InitWriter
    /\ InitReaders

----------------------------------------------------------------------------
(* One wrapper process: runWrapper's own goroutine and the status updater   *)
(* goroutine it starts, the wrapped command, and one consumer of the status *)
(* file in another process.  updateStatus is two steps: the record is built *)
(* with time.Now, then atomicWriteFile renames it into place.               *)

MaxClock == 2
MaxLifeTicks == 2
MaxPasses == 1

\* wrapper.go 305-330: the record updateStatus builds at time t
StatusAt(state, t) ==
    [TickStatus(t) EXCEPT !.State = GoString(state),
                          !.PromptMatched = (state = StateWaiting)]
\* the record an earlier process of the same name and pid left behind
StaleStatus == [StatusAt(StateRunning, 0) EXCEPT !.LastLine = << "old" >>]

LogWrite(by, rec) ==
    [op |-> "write", by |-> by, state |-> rec.State[1], at |-> rec.UpdatedAt.wall]
LogRemove(by) == [op |-> "remove", by |-> by, state |-> "", at |-> 0]

\* the error value of cmd.Wait: nil, an *exec.ExitError (whose ExitCode is
\* the exit status, or -1 when a signal ended the command), or another error
NilError == [kind |-> "nil", code |-> 0]
ExitError(code) == [kind |-> "ExitError", code |-> code]
OtherError == [kind |-> "other", code |-> 0]
WaitErrors == {NilError, ExitError(2), ExitError(-1), OtherError}

\* mutant: every failure is reported as 1
StoreExitCode_Generic(code, err) ==
    IF err.kind = "nil" THEN code ELSE 1

\* wrapper.go 278-284: the exit code is stored only for a non-nil error
StoreExitCode(code, err) ==
    IF err.kind = "nil" THEN code
    ELSE IF err.kind = "ExitError" THEN err.code
    ELSE 1

IdleLife ==
    /\ clock = 0
    /\ child = "none"
    /\ mainPc = "cleanup"
    /\ mainRec = NoStatus
    /\ ticker = [pc |-> "idle", n |-> 0, rec |-> NoStatus]
    /\ fileLog = << >>
    /\ cons = [pc |-> "idle", n |-> 0]
    /\ waitErr = NilError
    /\ exitCode = 0

\* the wrapper is about to start; the status directory may hold the file of
\* an earlier process that had the name and the pid the command will get
InitLife ==
    /\ IdleLife
    /\ sfile \in {NoStatus, << StaleStatus >>}

----------------------------------------------------------------------------
(* The status directory as a pass of a consumer sees it.  A file name is a  *)
(* sequence of characters.  A file is older than 24 hours or not, and holds *)
(* a record with a state and a pid, or bytes that are no JSON object.       *)

MaxFiles == 2

Foo == << "f", "o", "o" >>
Foobar == << "f", "o", "o", "b", "a", "r" >>
JsonExt == << ".", "j", "s", "o", "n" >>
\* fmt.Sprintf("%d", pid)
Decimal(pid) == << ToString(pid) >>

\* notify.go 216-218: name-pid.json
getStatusFileWithPID(name, pid) == name \o << "-" >> \o Decimal(pid) \o JsonExt

Foo1 == getStatusFileWithPID(Foo, 1)
Foobar2 == getStatusFileWithPID(Foobar, 2)
FooBar2 == getStatusFileWithPID(Foo \o << "-", "b", "a", "r" >>, 2)
FooJson == Foo \o JsonExt
NotesTxt == << "n", "o", "t", "e", "s", ".", "t", "x", "t" >>
FileNames == {Foo1, Foobar2, FooBar2, FooJson, NotesTxt}
\* os.ReadDir returns the entries sorted by name
DirOrder == << Foo1, FooBar2, FooJson, Foobar2, NotesTxt >>
\* the pid a wrapper recorded in the file it wrote under this name
NamePid(n) == IF n \in {Foobar2, FooBar2} THEN 2 ELSE 1

Absent ==
    [present |-> FALSE, old |-> FALSE, readable |-> FALSE, ok |-> FALSE,
     state |-> "", pid |-> 0]
\* a file: its modification time is older than 24 hours or not, the caller
\* may read it or not, it holds a record (state, pid) or no JSON object
File(n, kind) ==
    [present |-> TRUE,
     old |-> kind \in {"old", "oldcorrupt"},
     readable |-> kind # "unreadable",
     ok |-> kind \notin {"corrupt", "oldcorrupt"},
     state |-> IF kind = "stopped" THEN StateStopped ELSE StateRunning,
     pid |-> NamePid(n)]
FileKinds == {"running", "stopped", "corrupt", "old", "oldcorrupt", "unreadable"}
NoOutcome == [op |-> "none"]

IdlePass ==
    /\ entries = [n \in FileNames |-> Absent]
    /\ alive = {}
    /\ outcome = NoOutcome

----------------------------------------------------------------------------
(* Text: a string is the sequence of its characters.  The characters the   *)
(* functions tell apart are named; any other string stands for one more    *)
(* printable character.                                                     *)
ESC == "\\x1b"
BEL == "\\x07"
NonAscii == "U+00E9"
NoResult == << >>

IdlePrompt ==
    /\ line = << >>
    /\ customPattern = << >>
    /\ defaultPatterns = << >>
    /\ matched = NoResult
    /\ currentLine = << >>
    /\ tickLine = NoResult
    /\ promptMatched = NoResult
    /\ tickState = ""

IdleStrip ==
    /\ raw = << >>
    /\ once = NoResult
    /\ twice = NoResult

NoCall == [op |-> "none", rawLine |-> << >>, before |-> << >>]
NoRender == [op |-> "none", out |-> << >>]

IdleScreen ==
    /\ screenBuffer = << >>
    /\ arrived = << >>
    /\ lastCall = NoCall
    /\ lastLines = NoResult

IdleFormat ==
    /\ fNow = 0
    /\ fStart = 0
    /\ fMsg = << >>
    /\ fOut = NoRender

NoRecord == << >>
IdleRelay ==
    /\ ptyBuf = << >>
    /\ lineBuf = << >>
    /\ received = << >>
    /\ relayPc = "read"
    /\ tickPc = "idle"
    /\ runPc = "init"
    /\ wrote = [init |-> NoRecord, tick |-> NoRecord, exit |-> NoRecord]

Mutexes == {"bufferMu", "activityMu", "currentLineMu"}
Tasks == {"main", "stdin", "relay", "tick"}
FreeLock == [writer |-> "", readers |-> {}, pending |-> {}]
IdleLocks ==
    /\ locks = [mu \in Mutexes |-> FreeLock]
    /\ tasks = [t \in Tasks |-> [phase |-> "idle", ops |-> << >>]]

IdleTasks == IdleRelay /\ IdleLocks

IdleText == IdlePrompt /\ IdleStrip /\ IdleScreen /\ IdleFormat /\ IdleTasks

IdleNotify ==
    /\ InitNotify
    /\ config = [Command |-> "", StartMsg |-> NoMsg, EndMsg |-> NoMsg, MinDuration |-> 0]

Init ==
    InitNotify /\ InitStore /\ IdleLife /\ sfile = NoStatus /\ IdlePass /\ IdleText

\* the environment: StatusInterval (or more) passes and the detector yields
\* the next observation, which both state machines are fed
Observe(state, dt) ==
    /\ Len(obsHist) < MaxTicks
    /\ wSeen = Len(obsHist)
    /\ mSeen = Len(obsHist)
    /\ now' = IF obsHist = << >> THEN now ELSE now + dt
    /\ obsHist' = Append(obsHist, [state |-> state, at |-> now'])
    /\ UNCHANGED << config, lastState, lastNotifiedState, stateChangeTime,
                    TaskStartTime, wSeen, wFired, wSkipped, wWritten, wAssigned,
                    cmds,
                    lastStates, taskStartTimes, mSeen, mFired, storeVars,
                    lifeVars, passVars, textVars >>

\* mutant: the loop waits for the commands it started
TickReady_WaitsForCommand(started) == started.running = 0

\* wrapper.go 244: the command is started with go, the loop does not wait
TickReady(started) == TRUE

\* wrapper.go 244, notify.go 117: each call is a goroutine of its own
Started(started, calls) ==
    [started EXCEPT !.running = @ + Len(calls)]

Stamp(calls, tick, state) ==
    [i \in 1..Len(calls) |-> [tick |-> tick, state |-> state, msg |-> calls[i]]]

\* mutant: the record carries the state of the tick before
WrittenState_Previous(w, state) ==
    IF w.lastState = "" THEN state ELSE w.lastState

\* wrapper.go 183-187: the record is written with the state just detected,
\* before the notification rule is looked at
WrittenState(w, state) == state

\* wrapper.go 171-261: one iteration of the tick loop in standalone mode
WrapperTick ==
    /\ wSeen < Len(obsHist)
    /\ TickReady(cmds.w)
    /\ LET o == obsHist[wSeen + 1]
           w == [lastState |-> lastState, lastNotifiedState |-> lastNotifiedState,
                 stateChangeTime |-> stateChangeTime,
                 TaskStartTime |-> TaskStartTime, notify |-> << >>,
                 skipped |-> FALSE, assigned |-> << >>]
           n == WrapperStep(w, o.state, o.at, config)
       IN /\ wWritten' = Append(wWritten, WrittenState(w, o.state))
          /\ wAssigned' = wAssigned \o n.assigned
          /\ lastState' = n.lastState
          /\ lastNotifiedState' = n.lastNotifiedState
          /\ stateChangeTime' = n.stateChangeTime
          /\ TaskStartTime' = n.TaskStartTime
          /\ wFired' = wFired \o Stamp(n.notify, wSeen + 1, o.state)
          /\ wSkipped' = IF n.skipped
                         THEN Append(wSkipped, [tick |-> wSeen + 1, state |-> o.state])
                         ELSE wSkipped
          /\ cmds' = [cmds EXCEPT !.w = Started(@, n.notify)]
    /\ wSeen' = wSeen + 1
    /\ UNCHANGED << now, obsHist, config, lastStates, taskStartTimes, mSeen,
                    mFired, storeVars, lifeVars, passVars, textVars >>

\* notify.go 76-126: one call of checkAndNotify by the daemon loop
MonitorCheck ==
    /\ mSeen < Len(obsHist)
    /\ TickReady(cmds.m)
    /\ LET o == obsHist[mSeen + 1]
           m == [lastStates |-> lastStates, taskStartTimes |-> taskStartTimes,
                 notify |-> << >>]
           n == MonitorStep(m, o.state, o.at, config)
       IN /\ lastStates' = n.lastStates
          /\ taskStartTimes' = n.taskStartTimes
          /\ mFired' = mFired \o Stamp(n.notify, mSeen + 1, o.state)
          /\ cmds' = [cmds EXCEPT !.m = Started(@, n.notify)]
    /\ mSeen' = mSeen + 1
    /\ UNCHANGED << now, obsHist, config, lastState, lastNotifiedState,
                    stateChangeTime, TaskStartTime, wSeen, wFired, wSkipped,
                    wWritten, wAssigned, storeVars, lifeVars, passVars, textVars >>

NextObserve == \E state \in ObservedStates, dt \in TickDelays : Observe(state, dt)

Next == NextObserve \/ WrapperTick \/ MonitorCheck

Spec == Init /\ [][Next]_vars

\* wrapper.go 168-171: the ticker keeps firing, a pending tick of the
\* wrapper is eventually run; a notification command is configured
LiveInit == Init /\ config.Command # ""
LiveSpec == LiveInit /\ [][Next]_vars /\ WF_vars(WrapperTick)

----------------------------------------------------------------------------
(* The notification commands as processes of their own: a started command  *)
(* succeeds, fails, or runs for ever (it never takes a step).               *)
CommandResults == {"succeeded", "failed"}

\* wrapper.go 245-252, notify.go 118-119: a running command returns; the
\* result goes to the log file only
CommandReturns(who, result) ==
    /\ cmds[who].running > 0
    /\ cmds' = [cmds EXCEPT ![who].running = @ - 1, ![who][result] = @ + 1]
    /\ UNCHANGED << now, obsHist, config, lastState, lastNotifiedState,
                    stateChangeTime, TaskStartTime, wSeen, wFired, wSkipped,
                    wWritten, wAssigned, lastStates, taskStartTimes, mSeen, mFired,
                    storeVars, lifeVars, passVars, textVars >>

CommandNext ==
    \/ NextObserve
    \/ WrapperTick
    \/ MonitorCheck
    \/ \E who \in {"w", "m"}, result \in CommandResults :
          CommandReturns(who, result)

\* a notification command and both templates are configured
CommandInit ==
    /\ Init
    /\ config.Command # "" /\ config.StartMsg # NoMsg /\ config.EndMsg # NoMsg
    /\ config.MinDuration = 0

CommandSpec == CommandInit /\ [][CommandNext]_vars

----------------------------------------------------------------------------
(* README.md 580-654: checkStatus of the daemon.  A pass hands the record   *)
(* of the pid to checkAndNotify (MonitorCheck), or finds no file, or finds  *)
(* the file of a process that is gone; the last two only leave a marker in  *)
(* lastStates.                                                              *)
Marked(marker) ==
    /\ mSeen = Len(obsHist)
    /\ lastStates # marker
    /\ lastStates' = marker
    /\ UNCHANGED << now, obsHist, config, lastState, lastNotifiedState,
                    stateChangeTime, TaskStartTime, wSeen, wFired, wSkipped,
                    wWritten, wAssigned, cmds, taskStartTimes, mSeen, mFired,
                    storeVars, lifeVars, passVars, textVars >>

\* README.md 585-590: the status file of the pid cannot be read
CheckNotFound == Marked(NotFound)
\* README.md 594-600, 632-638: the recorded process does not exist
CheckTerminated == Marked(Terminated)

\* README.md 657-662, 583-584: the daemon's ticker fires and the record of
\* the pid is read; the wrapper that writes it is another process, and is
\* left out of this specification
DaemonReads(state, dt) ==
    /\ Len(obsHist) < MaxTicks
    /\ mSeen = Len(obsHist)
    /\ now' = IF obsHist = << >> THEN now ELSE now + dt
    /\ obsHist' = Append(obsHist, [state |-> state, at |-> now'])
    /\ UNCHANGED << config, lastState, lastNotifiedState, stateChangeTime,
                    TaskStartTime, wSeen, wFired, wSkipped, wWritten, wAssigned,
                    cmds, lastStates, taskStartTimes, mSeen, mFired, storeVars,
                    lifeVars, passVars, textVars >>

DaemonNext ==
    \/ \E state \in ObservedStates, dt \in TickDelays : DaemonReads(state, dt)
    \/ MonitorCheck
    \/ CheckNotFound
    \/ CheckTerminated

\* a notification command is configured; the daemon has no minimum duration
DaemonInit == Init /\ config.Command # "" /\ config.MinDuration = 0

DaemonSpec == DaemonInit /\ [][DaemonNext]_vars

----------------------------------------------------------------------------
(* notify.go 267-312: atomicWriteFile(filename, data, perm), one action per *)
(* system call.  wr.made, wr.old and wr.committed are history: the name the *)
(* call created, what the target showed when the call began, and the        *)
(* contents published by successful renames.                                *)

\* notify.go 267-275: a call begins and os.CreateTemp succeeds
CreateTemp(perm, status) ==
    /\ wr.pc \in {"idle", "returned", "crashed"}
    /\ wr.seq < MaxWrites
    /\ LET seq == wr.seq + 1
           tmp == tempName(Target, seq)
       IN /\ inodes' = Append(inodes, [data |-> << >>, mode |-> TempMode])
          /\ dir' = [dir EXCEPT ![tmp] = Len(inodes')]
          /\ wr' = [wr EXCEPT !.pc = "write", !.seq = seq, !.status = << status >>,
                              !.data = Marshal(status),
                              !.perm = perm, !.tmpName = tmp,
                              !.fd = Len(inodes'), !.err = FALSE,
                              !.made = tmp,
                              !.old = Stat(dir, inodes, Target)]
    /\ UNCHANGED << rd, notifyVars, lifeVars, passVars, textVars >>

\* notify.go 271-274: os.CreateTemp fails, nothing was created
CreateTempFails(status) ==
    /\ wr.pc \in {"idle", "returned", "crashed"}
    /\ wr.seq < MaxWrites
    /\ wr' = [wr EXCEPT !.pc = "returned", !.seq = wr.seq + 1,
                        !.status = << status >>,
                        !.data = Marshal(status), !.tmpName = NoName,
                        !.fd = 0, !.err = TRUE, !.made = NoName,
                        !.old = Stat(dir, inodes, Target)]
    /\ UNCHANGED << dir, inodes, rd, notifyVars, lifeVars, passVars, textVars >>

\* notify.go 285: tmp.Write puts the next chunk into the descriptor's file
WriteChunk ==
    /\ wr.pc = "write"
    /\ LET have == Len(inodes[wr.fd].data)
       IN /\ inodes' = [inodes EXCEPT ![wr.fd].data = Append(@, wr.data[have + 1])]
          /\ wr' = [wr EXCEPT !.pc = IF have + 1 = Len(wr.data) THEN "sync" ELSE "write"]
    /\ UNCHANGED << dir, rd, notifyVars, lifeVars, passVars, textVars >>

\* notify.go 291: tmp.Sync
Sync ==
    /\ wr.pc = "sync"
    /\ wr' = [wr EXCEPT !.pc = "close"]
    /\ UNCHANGED << dir, inodes, rd, notifyVars, lifeVars, passVars, textVars >>

\* notify.go 296: tmp.Close
Close ==
    /\ wr.pc = "close"
    /\ wr' = [wr EXCEPT !.pc = "chmod", !.fd = 0]
    /\ UNCHANGED << dir, inodes, rd, notifyVars, lifeVars, passVars, textVars >>

\* notify.go 301: os.Chmod(tmpName, perm)
Chmod ==
    /\ wr.pc = "chmod"
    /\ inodes' = [inodes EXCEPT ![dir[wr.tmpName]].mode = wr.perm]
    /\ wr' = [wr EXCEPT !.pc = "rename"]
    /\ UNCHANGED << dir, rd, notifyVars, lifeVars, passVars, textVars >>

\* notify.go 306-311: os.Rename succeeds, tmpName is cleared, return nil
RenameOk ==
    /\ wr.pc = "rename"
    /\ dir' = cleanupOnReturn(Rename(dir, wr.tmpName, Target), NoName)
    /\ wr' = [wr EXCEPT !.pc = "returned", !.tmpName = NoName,
                        !.committed = Append(@, Content(dir, inodes, wr.tmpName))]
    /\ UNCHANGED << inodes, rd, notifyVars, lifeVars, passVars, textVars >>

\* notify.go 285-308: the system call of the current step fails; the
\* descriptor is closed, the error returned and the deferred cleanup runs
StepFails ==
    /\ wr.pc \in InFlight
    /\ dir' = cleanupOnReturn(dir, wr.tmpName)
    /\ wr' = [wr EXCEPT !.pc = "returned", !.fd = 0, !.err = TRUE]
    /\ UNCHANGED << inodes, rd, notifyVars, lifeVars, passVars, textVars >>

\* the writing process dies inside atomicWriteFile; nothing deferred runs
Crash ==
    /\ wr.pc \in InFlight
    /\ wr' = [wr EXCEPT !.pc = "crashed", !.fd = 0]
    /\ UNCHANGED << dir, inodes, rd, notifyVars, lifeVars, passVars, textVars >>

----------------------------------------------------------------------------
(* notify.go 239-264: readStatusWithLock(filename), one action per system   *)
(* call.  rd[r].atOpen is history: how many renames had been published when *)
(* the reader opened the file.                                              *)

\* mutant: the deferred unlock is missing
Returned_KeepsLock(r, status, failed) ==
    [rd[r] EXCEPT !.pc = "returned", !.fd = 0,
                  !.status = status, !.err = failed]

\* notify.go 244, 250: a return of readStatusWithLock, the deferred unlock
\* and close included
Returned(r, status, failed) ==
    [rd[r] EXCEPT !.pc = "returned", !.fd = 0, !.locked = FALSE,
                  !.status = status, !.err = failed]

\* notify.go 240-244: os.Open
Open(r) ==
    /\ rd[r].pc \in {"idle", "returned"}
    /\ rd' = [rd EXCEPT ![r] =
                IF dir[Target] = 0
                THEN Returned(r, NoStatus, TRUE)
                ELSE [pc |-> "flock", fd |-> dir[Target], locked |-> FALSE,
                      data |-> << >>, atOpen |-> Len(wr.committed),
                      status |-> NoStatus, err |-> FALSE]]
    /\ UNCHANGED << dir, inodes, wr, notifyVars, lifeVars, passVars, textVars >>

\* notify.go 247-250: syscall.Flock(LOCK_SH); nothing holds an exclusive lock
Flock(r) ==
    /\ rd[r].pc = "flock"
    /\ rd' = [rd EXCEPT ![r].pc = "read", ![r].locked = TRUE]
    /\ UNCHANGED << dir, inodes, wr, notifyVars, lifeVars, passVars, textVars >>

\* notify.go 253: io.ReadAll reads the descriptor's file chunk by chunk up to
\* its end
ReadChunk(r) ==
    /\ rd[r].pc = "read"
    /\ LET file == inodes[rd[r].fd].data
           have == Len(rd[r].data)
       IN rd' = [rd EXCEPT ![r] =
                   IF have < Len(file)
                   THEN [@ EXCEPT !.data = Append(@, file[have + 1])]
                   ELSE [@ EXCEPT !.pc = "decode"]]
    /\ UNCHANGED << dir, inodes, wr, notifyVars, lifeVars, passVars, textVars >>

\* notify.go 258-263: json.Unmarshal, return; the deferred unlock and close
DecodeAndReturn(r) ==
    /\ rd[r].pc = "decode"
    /\ LET u == Unmarshal(rd[r].data)
       IN rd' = [rd EXCEPT ![r] = Returned(r, u.status, ~u.ok)]
    /\ UNCHANGED << dir, inodes, wr, notifyVars, lifeVars, passVars, textVars >>

\* notify.go 247-256: Flock or ReadAll fails; return the error
ReadFails(r) ==
    /\ rd[r].pc \in {"flock", "read"}
    /\ rd' = [rd EXCEPT ![r] = [Returned(r, NoStatus, TRUE) EXCEPT !.data = << >>]]
    /\ UNCHANGED << dir, inodes, wr, notifyVars, lifeVars, passVars, textVars >>

WriterNext ==
    \/ \E perm \in Perms : CreateTemp(perm, TickStatus(wr.seq + 1))
    \/ CreateTempFails(TickStatus(wr.seq + 1))
    \/ WriteChunk
    \/ Sync
    \/ Close
    \/ Chmod
    \/ RenameOk
    \/ StepFails
    \/ Crash

ReaderNext ==
    \E r \in Readers :
        Open(r) \/ Flock(r) \/ ReadChunk(r) \/ DecodeAndReturn(r) \/ ReadFails(r)

StoreNext == WriterNext \/ ReaderNext

StoreInit ==
    /\ InitNotify
    /\ config = [Command |-> "", StartMsg |-> NoMsg, EndMsg |-> NoMsg, MinDuration |-> 0]
    /\ InitStore
    /\ IdleLife /\ sfile = NoStatus
    /\ IdlePass
    /\ IdleText

StoreSpec == StoreInit /\ [][StoreNext]_vars

----------------------------------------------------------------------------
(* A caller that writes records with atomicWriteFile and reads the file     *)
(* with readStatusWithLock, one call at a time, as the tests of             *)
(* prompt_test.go 162-296 do.  The file may be absent at first, hold bytes  *)
(* that are no JSON object, or hold a record.                               *)

MaxRoundTrips == 1

CorruptContents == {NotJson, << "{" >>}
InitialContents == CorruptContents \cup {Marshal(TickStatus(0))}

RoundTripInit ==
    /\ InitNotify
    /\ config = [Command |-> "", StartMsg |-> NoMsg, EndMsg |-> NoMsg, MinDuration |-> 0]
    /\ \/ /\ dir = [n \in Names |-> 0]
          /\ inodes = << >>
       \/ \E content \in InitialContents :
            /\ dir = [n \in Names |-> IF n = Target THEN 1 ELSE 0]
            /\ inodes = << [data |-> content, mode |-> "0644"] >>
    /\ InitWriter
    /\ InitReaders
    /\ IdleLife /\ sfile = NoStatus
    /\ IdlePass
    /\ IdleText

ReaderIdle == rd["r1"].pc \in {"idle", "returned"}
WriterIdle == wr.pc \notin InFlight

\* prompt_test.go 166-171, 279-287: a record is marshalled and written
WriteCall ==
    /\ ReaderIdle
    /\ wr.seq < MaxRoundTrips
    /\ \E perm \in Perms, status \in Statuses : CreateTemp(perm, status)

WriteCallFails ==
    /\ ReaderIdle
    /\ wr.seq < MaxRoundTrips
    /\ \E status \in Statuses : CreateTempFails(status)

\* prompt_test.go 224, 241, 251, 290: the file is read
ReadCall == WriterIdle /\ Open("r1")

RoundTripNext ==
    \/ WriteCall
    \/ WriteCallFails
    \/ WriteChunk
    \/ Sync
    \/ Close
    \/ Chmod
    \/ RenameOk
    \/ StepFails
    \/ Crash
    \/ ReadCall
    \/ Flock("r1")
    \/ ReadChunk("r1")
    \/ DecodeAndReturn("r1")
    \/ ReadFails("r1")

RoundTripSpec == RoundTripInit /\ [][RoundTripNext]_vars

----------------------------------------------------------------------------
(* The life of one wrapper process, from main to its exit.                  *)

exitVars == << waitErr, exitCode >>
otherVars == << exitVars, notifyVars, storeVars, passVars, textVars >>

\* prompt_test.go 92 (Run): cleanupStaleFiles at startup; the pid the
\* command will get belongs to no process yet, a file recording it is removed
StartupCleanup ==
    /\ mainPc = "cleanup"
    /\ sfile' = NoStatus
    /\ mainPc' = "start"
    /\ UNCHANGED << clock, child, mainRec, ticker, fileLog, cons, otherVars >>

\* wrapper.go 42-53: pty.Start, the command runs
Fork ==
    /\ mainPc = "start"
    /\ child' = "alive"
    /\ mainPc' = "init"
    /\ UNCHANGED << clock, mainRec, ticker, sfile, fileLog, cons, otherVars >>

\* wrapper.go 82-85: the initial status, before any goroutine is started
InitialStatus ==
    /\ mainPc = "init"
    /\ mainRec' = << StatusAt(StateRunning, clock) >>
    /\ sfile' = mainRec'
    /\ fileLog' = Append(fileLog, LogWrite("main", mainRec'[1]))
    /\ mainPc' = "wait"
    /\ UNCHANGED << clock, child, ticker, cons, otherVars >>

\* the goroutine started at wrapper.go 167 runs until the process exits
TickerRuns == mainPc \in {"wait", "stop", "publish", "remove", "return"}

\* wrapper.go 171-187, 305-330: a tick; the state is detected and
\* updateStatus builds its record
TickStamp(state) ==
    /\ TickerRuns
    /\ ticker.pc = "idle"
    /\ ticker.n < MaxLifeTicks
    /\ ticker' = [pc |-> "stamped", n |-> ticker.n + 1,
                rec |-> << StatusAt(state, clock) >>]
    /\ UNCHANGED << clock, child, mainPc, mainRec, sfile, fileLog, cons, otherVars >>

\* wrapper.go 332-333: the tick's atomicWriteFile renames its record into
\* place
TickPublish ==
    /\ TickerRuns
    /\ ticker.pc = "stamped"
    /\ sfile' = ticker.rec
    /\ fileLog' = Append(fileLog, LogWrite("tick", ticker.rec[1]))
    /\ ticker' = [ticker EXCEPT !.pc = "idle"]
    /\ UNCHANGED << clock, child, mainPc, mainRec, cons, otherVars >>

\* the wrapped command terminates
ChildExit ==
    /\ child = "alive"
    /\ mainPc = "wait"
    /\ child' = "zombie"
    /\ UNCHANGED << clock, mainPc, mainRec, ticker, sfile, fileLog, cons, otherVars >>

\* wrapper.go 265: cmd.Wait returns its error
WaitReturns(err) ==
    /\ mainPc = "wait"
    /\ child = "zombie"
    /\ child' = "reaped"
    /\ waitErr' = err
    /\ mainPc' = "stop"
    /\ UNCHANGED << clock, mainRec, ticker, sfile, fileLog, cons, exitCode,
                    notifyVars, storeVars, passVars, textVars >>

\* wrapper.go 266, 305-330: updateStatus(StateStopped) builds its record
StampStopped ==
    /\ mainPc = "stop"
    /\ mainRec' = << StatusAt(StateStopped, clock) >>
    /\ mainPc' = "publish"
    /\ UNCHANGED << clock, child, ticker, sfile, fileLog, cons, otherVars >>

\* wrapper.go 332-333: and renames it into place
PublishStopped ==
    /\ mainPc = "publish"
    /\ sfile' = mainRec
    /\ fileLog' = Append(fileLog, LogWrite("main", mainRec[1]))
    /\ mainPc' = "remove"
    /\ UNCHANGED << clock, child, mainRec, ticker, cons, otherVars >>

\* wrapper.go 269: os.Remove(statusFile)
RemoveStatusFile ==
    /\ mainPc = "remove"
    /\ sfile' = NoStatus
    /\ fileLog' = Append(fileLog, LogRemove("main"))
    /\ mainPc' = "return"
    /\ UNCHANGED << clock, child, mainRec, ticker, cons, otherVars >>

\* wrapper.go 271-285, prompt_test.go 131-149: the exit code is stored,
\* runWrapper returns, Run returns exitCode and the process exits, whatever
\* the status updater goroutine is doing
Exit ==
    /\ mainPc = "return"
    /\ exitCode' = StoreExitCode(exitCode, waitErr)
    /\ mainPc' = "exited"
    /\ UNCHANGED << clock, child, mainRec, ticker, sfile, fileLog, cons, waitErr,
                    notifyVars, storeVars, passVars, textVars >>

\* time passes
Tock ==
    /\ clock < MaxClock
    /\ clock' = clock + 1
    /\ UNCHANGED << child, mainPc, mainRec, ticker, sfile, fileLog, cons, otherVars >>

\* syscall.Kill(pid, 0) for the pid of the wrapped command
PidAlive == child \in {"alive", "zombie"}

\* README.md 625-629: checkStatus of a daemon in another process reads the
\* status file
ConsumerRead ==
    /\ cons.pc = "idle"
    /\ cons.n < MaxPasses
    /\ sfile # NoStatus
    /\ cons' = [pc |-> "probe", n |-> cons.n + 1]
    /\ UNCHANGED << clock, child, mainPc, mainRec, ticker, sfile, fileLog, otherVars >>

\* README.md 632: the liveness probe of the recorded pid
ConsumerProbe ==
    /\ cons.pc = "probe"
    /\ cons' = [cons EXCEPT !.pc = IF PidAlive THEN "idle" ELSE "remove"]
    /\ UNCHANGED << clock, child, mainPc, mainRec, ticker, sfile, fileLog, otherVars >>

\* README.md 637: os.Remove(filePath) after a failed probe
ConsumerRemove ==
    /\ cons.pc = "remove"
    /\ sfile' = NoStatus
    /\ fileLog' = IF sfile # NoStatus THEN Append(fileLog, LogRemove("consumer"))
                  ELSE fileLog
    /\ cons' = [cons EXCEPT !.pc = "idle"]
    /\ UNCHANGED << clock, child, mainPc, mainRec, ticker, otherVars >>

LifeNext ==
    \/ StartupCleanup
    \/ Fork
    \/ InitialStatus
    \/ \E state \in ObservedStates : TickStamp(state)
    \/ TickPublish
    \/ ChildExit
    \/ WaitReturns(NilError)
    \/ StampStopped
    \/ PublishStopped
    \/ RemoveStatusFile
    \/ Exit
    \/ Tock
    \/ ConsumerRead
    \/ ConsumerProbe
    \/ ConsumerRemove

LifeInit == IdleNotify /\ InitStore /\ InitLife /\ IdlePass /\ IdleText

\* the wrapped command of this specification exits successfully
LifeSpec == LifeInit /\ [][LifeNext]_vars

\* the wrapper alone, its command ending in any of the ways cmd.Wait reports
ExitNext ==
    \/ StartupCleanup
    \/ Fork
    \/ InitialStatus
    \/ \E state \in ObservedStates : TickStamp(state)
    \/ TickPublish
    \/ ChildExit
    \/ \E err \in WaitErrors : WaitReturns(err)
    \/ StampStopped
    \/ PublishStopped
    \/ RemoveStatusFile
    \/ Exit
    \/ Tock

ExitSpec == LifeInit /\ [][ExitNext]_vars

----------------------------------------------------------------------------
(* The consumers of the status directory, one action per pass.  gone is the *)
(* set of listed files another process removes before the pass reaches      *)
(* them.  A pass gives each file it selects a verdict: skip (nothing read), *)
(* reclaim (removed unread), remove (read, then removed), show (read, then  *)
(* printed or handed to checkAndNotify).                                    *)

HasPrefix(str, prefix) ==
    Len(prefix) <= Len(str) /\ SubSeq(str, 1, Len(prefix)) = prefix
HasSuffix(str, suffix) ==
    /\ Len(suffix) <= Len(str)
    /\ SubSeq(str, Len(str) - Len(suffix) + 1, Len(str)) = suffix

Listed(e) == {n \in FileNames : e[n].present}

\* notify.go 239-264: readStatusWithLock fails on a missing or unreadable
\* file and on bytes that are no JSON object
ReadError(f, vanished) == vanished \/ ~f.present \/ ~f.readable \/ ~f.ok

\* mutant: a file that does not decode is skipped
CleanupVerdict_SkipsCorrupt(f, al, vanished) ==
    IF vanished THEN "skip"
    ELSE IF f.old THEN "reclaim"
    ELSE IF ~f.readable THEN "skip"
    ELSE IF ~f.ok THEN "skip"
    ELSE IF f.pid \notin al THEN "remove"
    ELSE "show"

\* notify.go 184-211: cleanupStaleFiles, one entry
CleanupVerdict(f, al, vanished) ==
    IF vanished THEN "skip"
    ELSE IF f.old THEN "reclaim"
    ELSE IF ~f.readable THEN "skip"
    ELSE IF ~f.ok THEN "reclaim"
    ELSE IF f.pid \notin al THEN "remove"
    ELSE "show"

\* README.md 529-538, 584-603, 626-642: single-status view by name and the
\* daemon's checkStatus, one file
ProbeVerdict(f, al, vanished) ==
    IF ReadError(f, vanished) THEN "skip"
    ELSE IF f.pid \notin al THEN "remove"
    ELSE "show"

\* README.md 692-715: listProcesses, one entry
ListVerdict(f, al, vanished) ==
    IF ReadError(f, vanished) THEN "skip"
    ELSE IF f.state # StateStopped /\ f.pid \notin al THEN "remove"
    ELSE "show"

\* README.md 483-488, 497-502: the views of one file print what they read
PrintVerdict(f, al, vanished) ==
    IF ReadError(f, vanished) THEN "skip" ELSE "show"

\* the selections
JsonEntries(e) == {n \in Listed(e) : HasSuffix(n, JsonExt)}
\* README.md 514-520
ShowSelection(e, name) ==
    {n \in Listed(e) : HasPrefix(n, name \o << "-" >>) /\ HasSuffix(n, JsonExt)}
\* README.md 613-623
DaemonSelection(e, name) ==
    {n \in Listed(e) :
        /\ HasSuffix(n, JsonExt)
        /\ (n = name \o JsonExt \/ HasPrefix(n, name \o << "-" >>))}
\* notify.go 221-236: findStatusFileByPID, the first entry with the suffix
PidMatches(e, pid) ==
    {i \in 1..Len(DirOrder) :
        /\ e[DirOrder[i]].present
        /\ HasSuffix(DirOrder[i], << "-" >> \o Decimal(pid) \o JsonExt)}
findStatusFileByPID(e, pid) ==
    IF PidMatches(e, pid) = {} THEN {}
    ELSE {DirOrder[CHOOSE i \in PidMatches(e, pid) :
                     \A j \in PidMatches(e, pid) : i <= j]}
\* the one file a view or a daemon of an explicit pid opens, if it exists
ExactFile(e, name, pid) == {getStatusFileWithPID(name, pid)} \cap Listed(e)

\* a pass over the selected files, verdict[n] what it decides for file n
Pass(op, name, pid, selected, vanished, verdict) ==
    LET removed == {n \in selected : verdict[n] \in {"reclaim", "remove"}}
    IN /\ entries' = [n \in FileNames |->
                        IF n \in removed \cup vanished THEN Absent ELSE entries[n]]
       /\ outcome' = [op |-> op, name |-> name, pid |-> pid,
                      before |-> entries, gone |-> vanished,
                      selected |-> selected,
                      read |-> {n \in selected : verdict[n] \in {"remove", "show"}},
                      shown |-> {n \in selected : verdict[n] = "show"},
                      removed |-> removed]
       /\ UNCHANGED << alive, notifyVars, storeVars, lifeVars, textVars >>

Gone(selected) == {{}} \cup {{n} : n \in selected}
LookupNames == {Foo, Foobar}
LookupPids == 1..2

\* notify.go 171-213
cleanupStaleFiles ==
    \E gone \in Gone(JsonEntries(entries)) :
        Pass("cleanup", NoName, 0, JsonEntries(entries), gone,
             [n \in JsonEntries(entries) |->
                CleanupVerdict(entries[n], alive, n \in gone)])

\* README.md 671-716
listProcesses ==
    \E gone \in Gone(JsonEntries(entries)) :
        Pass("list", NoName, 0, JsonEntries(entries), gone,
             [n \in JsonEntries(entries) |->
                ListVerdict(entries[n], alive, n \in gone)])

\* README.md 493-541, no pid given
showSingleStatus ==
    \E name \in LookupNames : \E gone \in Gone(ShowSelection(entries, name)) :
        Pass("show-name", name, 0, ShowSelection(entries, name), gone,
             [n \in ShowSelection(entries, name) |->
                ProbeVerdict(entries[n], alive, n \in gone)])

\* README.md 495-504, a pid given
showSingleStatusOfPid ==
    \E name \in LookupNames, pid \in LookupPids :
        Pass("show-name-pid", name, pid, ExactFile(entries, name, pid), {},
             [n \in ExactFile(entries, name, pid) |->
                PrintVerdict(entries[n], alive, FALSE)])

\* README.md 448-490, not as a daemon
showStatusByPID ==
    \E pid \in LookupPids :
        Pass("show-pid", NoName, pid, findStatusFileByPID(entries, pid), {},
             [n \in findStatusFileByPID(entries, pid) |->
                PrintVerdict(entries[n], alive, FALSE)])

\* README.md 582-605: checkStatus of a daemon of one pid
checkStatusOfPid ==
    \E name \in LookupNames, pid \in LookupPids :
        Pass("daemon-pid", name, pid, ExactFile(entries, name, pid), {},
             [n \in ExactFile(entries, name, pid) |->
                ProbeVerdict(entries[n], alive, FALSE)])

\* README.md 607-654: checkStatus of a daemon of a name
checkStatusOfName ==
    \E name \in LookupNames : \E gone \in Gone(DaemonSelection(entries, name)) :
        Pass("daemon-name", name, 0, DaemonSelection(entries, name), gone,
             [n \in DaemonSelection(entries, name) |->
                ProbeVerdict(entries[n], alive, n \in gone)])

\* a recorded process terminates
ProcessDies ==
    \E pid \in alive :
        /\ alive' = alive \ {pid}
        /\ outcome' = NoOutcome
        /\ UNCHANGED << entries, notifyVars, storeVars, lifeVars, textVars >>

PassNext ==
    \/ cleanupStaleFiles
    \/ listProcesses
    \/ showSingleStatus
    \/ showSingleStatusOfPid
    \/ showStatusByPID
    \/ checkStatusOfPid
    \/ checkStatusOfName
    \/ ProcessDies

\* a status directory with at most MaxFiles files
InitPass ==
    /\ \E kinds \in [FileNames -> FileKinds \cup {"absent"}] :
         /\ Cardinality({n \in FileNames : kinds[n] # "absent"}) <= MaxFiles
         /\ kinds[NotesTxt] \in {"absent", "corrupt", "oldcorrupt"}
         /\ entries = [n \in FileNames |->
                         IF kinds[n] = "absent" THEN Absent ELSE File(n, kinds[n])]
    /\ alive \in SUBSET LookupPids
    /\ outcome = NoOutcome

PassInit ==
    IdleNotify /\ InitStore /\ IdleLife /\ sfile = NoStatus /\ InitPass /\ IdleText

PassSpec == PassInit /\ [][PassNext]_vars

----------------------------------------------------------------------------
(* part_001 8-21: stripAnsi.  ansiRegex has six alternatives, tried in      *)
(* order at the leftmost position where one of them matches; each operator  *)
(* below gives, for one alternative, the position after its match starting  *)
(* at i, or 0 when it does not match there.  Lines hold no newline (the     *)
(* reader splits on it), so "." matches every character.                    *)
Digits == {"0", "1", "2", "3", "4", "5", "6", "7", "8", "9"}
Letters ==
    {"a", "b", "c", "d", "e", "f", "g", "h", "i", "j", "k", "l", "m", "n",
     "o", "p", "q", "r", "s", "t", "u", "v", "w", "x", "y", "z",
     "A", "B", "C", "D", "E", "F", "G", "H", "I", "J", "K", "L", "M", "N",
     "O", "P", "Q", "R", "S", "T", "U", "V", "W", "X", "Y", "Z"}

Least(S) == CHOOSE x \in S : \A y \in S : x <= y
Greatest(S) == CHOOSE x \in S : \A y \in S : x >= y

\* the character at position i, "" past the end
At(s, i) == IF i \in 1..Len(s) THEN s[i] ELSE ""
\* the first position from i on that holds a character of stop
After(s, i, stop) ==
    LET hits == {j \in i..Len(s) : s[j] \in stop}
    IN  IF hits = {} THEN Len(s) + 1 ELSE Least(hits)
\* the first position from i on that holds no character of class
Skip(s, i, class) ==
    LET out == {j \in i..Len(s) : s[j] \notin class}
    IN  IF out = {} THEN Len(s) + 1 ELSE Least(out)

\* \x1b\[[0-9;?]*[a-zA-Z]
Csi(s, i) ==
    IF At(s, i) = ESC /\ At(s, i + 1) = "["
    THEN LET j == Skip(s, i + 2, Digits \cup {";", "?"})
         IN  IF At(s, j) \in Letters THEN j + 1 ELSE 0
    ELSE 0

\* \x1b\][^\x07]*\x07
OscBel(s, i) ==
    IF At(s, i) = ESC /\ At(s, i + 1) = "]"
    THEN LET j == After(s, i + 2, {BEL})
         IN  IF j <= Len(s) THEN j + 1 ELSE 0
    ELSE 0

\* \x1b\][^\x1b]*\x1b\\
OscSt(s, i) ==
    IF At(s, i) = ESC /\ At(s, i + 1) = "]"
    THEN LET j == After(s, i + 2, {ESC})
         IN  IF At(s, j) = ESC /\ At(s, j + 1) = "\\" THEN j + 2 ELSE 0
    ELSE 0

\* \x1b[PX^_].*?(?:\x1b\\|\x07)
StringSeq(s, i) ==
    IF At(s, i) = ESC /\ At(s, i + 1) \in {"P", "X", "^", "_"}
    THEN LET ends == {j \in (i + 2)..Len(s) :
                         \/ s[j] = BEL
                         \/ s[j] = ESC /\ At(s, j + 1) = "\\"}
         IN  IF ends = {} THEN 0
             ELSE IF s[Least(ends)] = BEL THEN Least(ends) + 1
             ELSE Least(ends) + 2
    ELSE 0

\* \x1b.
EscAny(s, i) == IF At(s, i) = ESC /\ i + 1 <= Len(s) THEN i + 2 ELSE 0

\* mutant: the digits are optional
DecMode_NoDigits(s, i) ==
    IF At(s, i) = "?"
    THEN LET j == Skip(s, i + 1, Digits)
         IN  IF At(s, j) \in {"h", "l"} THEN j + 1 ELSE 0
    ELSE 0

\* \?[0-9]+[hl]
DecMode(s, i) ==
    IF At(s, i) = "?"
    THEN LET j == Skip(s, i + 1, Digits)
         IN  IF j > i + 1 /\ At(s, j) \in {"h", "l"} THEN j + 1 ELSE 0
    ELSE 0

\* the position after the match of ansiRegex that starts at i, 0 if none
MatchEnd(s, i) ==
    IF Csi(s, i) # 0 THEN Csi(s, i)
    ELSE IF OscBel(s, i) # 0 THEN OscBel(s, i)
    ELSE IF OscSt(s, i) # 0 THEN OscSt(s, i)
    ELSE IF StringSeq(s, i) # 0 THEN StringSeq(s, i)
    ELSE IF EscAny(s, i) # 0 THEN EscAny(s, i)
    ELSE DecMode(s, i)

\* ansiRegex.ReplaceAllString(s, ""): one pass from the left, the matches
\* do not overlap and what is left is not scanned again
RECURSIVE ReplaceAllFrom(_, _)
ReplaceAllFrom(s, i) ==
    IF i > Len(s) THEN << >>
    ELSE IF MatchEnd(s, i) # 0 THEN ReplaceAllFrom(s, MatchEnd(s, i))
    ELSE << s[i] >> \o ReplaceAllFrom(s, i + 1)

\* part_001 16: r >= 32 && r < 127
Printable(c) == c \notin {ESC, BEL, NonAscii}

\* mutant: nothing is trimmed
TrimSpace_KeepsSpace(s) == s

\* strings.TrimSpace; the space is the only white space left by the filter
TrimSpace(s) ==
    LET keep == {j \in 1..Len(s) : s[j] # " "}
    IN  IF keep = {} THEN << >> ELSE SubSeq(s, Least(keep), Greatest(keep))

stripAnsi(s) == TrimSpace(SelectSeq(ReplaceAllFrom(s, 1), Printable))

----------------------------------------------------------------------------
(* part_001 23-56: matchPrompt and compilePromptPatterns.  A regular        *)
(* expression is named by its source text; MatchString gives, for the       *)
(* expressions the model uses, what regexp.MatchString computes.            *)
Contains(s, sub) ==
    \E i \in 1..(Len(s) - Len(sub) + 1) : SubSeq(s, i, i + Len(sub) - 1) = sub

GtAtEnd == "> ?$"
BangGt == "!> "
DollarAtEnd == "\\$ $"
EmptyLine == "^$"
Invalid == "[invalid"
Regexps == {GtAtEnd, BangGt, DollarAtEnd, EmptyLine}

MatchString(re, s) ==
    CASE re = GtAtEnd -> HasSuffix(s, << ">" >>) \/ HasSuffix(s, << ">", " " >>)
      [] re = BangGt -> Contains(s, << "!", ">", " " >>)
      [] re = DollarAtEnd -> HasSuffix(s, << "$", " " >>)
      [] re = EmptyLine -> s = << >>

\* regexp.Compile succeeds
Compiles(p) == p \in Regexps
compilePromptPatterns(patterns) == SelectSeq(patterns, Compiles)

\* config.go 30-32
DefaultPromptPatterns == << BangGt >>

\* mutant: a custom pattern that does not match decides
matchPrompt_CustomDecides(l, custom, defaults) ==
    IF custom # << >> THEN MatchString(custom[1], l)
    ELSE IF \E i \in 1..Len(defaults) : MatchString(defaults[i], l) THEN TRUE
    ELSE HasSuffix(l, << ">", " " >>) \/ HasSuffix(l, << ">" >>)

matchPrompt(l, custom, defaults) ==
    IF custom # << >> /\ MatchString(custom[1], l) THEN TRUE
    ELSE IF \E i \in 1..Len(defaults) : MatchString(defaults[i], l) THEN TRUE
    ELSE IF HasSuffix(l, << ">", " " >>) \/ HasSuffix(l, << ">" >>) THEN TRUE
    ELSE FALSE

\* part_002 21-27: the patterns of the configuration file, or the default
promptPatterns(configured) ==
    IF Len(configured) > 0 THEN compilePromptPatterns(configured)
    ELSE compilePromptPatterns(DefaultPromptPatterns)

\* inputs: lines of at most MaxLine characters
MaxLine == 3
PromptChars == {">", " ", "!", "$", "r"}
LinesOver(chars, n) == UNION {[1..k -> chars] : k \in 0..n}
CustomPatterns == {<< >>, << DollarAtEnd >>, << EmptyLine >>}
PatternLists ==
    {<< >>, << GtAtEnd >>, << BangGt, Invalid >>, << Invalid >>}

InitPrompt ==
    /\ line \in LinesOver(PromptChars, MaxLine)
    /\ customPattern \in CustomPatterns
    /\ defaultPatterns \in PatternLists
    /\ matched = NoResult
    /\ currentLine = << >>
    /\ tickLine = NoResult
    /\ promptMatched = NoResult
    /\ tickState = ""

promptOther == << notifyVars, storeVars, lifeVars, passVars, stripVars,
                 screenVars, formatVars, taskVars >>

\* prompt_test.go 53-57: matchPrompt applied to a line
TestMatchPrompt ==
    /\ matched = NoResult
    /\ matched' = << matchPrompt(line, customPattern,
                                 compilePromptPatterns(defaultPatterns)) >>
    /\ UNCHANGED << line, customPattern, defaultPatterns, currentLine,
                    tickLine, promptMatched, tickState, promptOther >>

\* wrapper.go 154-157: the reader publishes the stripped line buffer
ReadOutput ==
    /\ currentLine' = stripAnsi(line)
    /\ UNCHANGED << line, customPattern, defaultPatterns, matched, tickLine,
                    promptMatched, tickState, promptOther >>

\* wrapper.go 171-187: the tick samples the current line and classifies
PromptTick ==
    /\ tickLine' = << currentLine >>
    /\ promptMatched' = << matchPrompt(currentLine, customPattern,
                                       promptPatterns(defaultPatterns)) >>
    /\ tickState' = IF promptMatched'[1] THEN StateWaiting ELSE StateRunning
    /\ UNCHANGED << line, customPattern, defaultPatterns, matched,
                    currentLine, promptOther >>

PromptNext == TestMatchPrompt \/ ReadOutput \/ PromptTick

PromptInit ==
    /\ IdleNotify /\ InitStore /\ IdleLife /\ sfile = NoStatus /\ IdlePass
    /\ InitPrompt /\ IdleStrip /\ IdleScreen /\ IdleFormat
    /\ IdleTasks

PromptSpec == PromptInit /\ [][PromptNext]_vars

----------------------------------------------------------------------------
(* stripAnsi applied to the bytes of a line, and to its own result.         *)
MaxRaw == 4
StripChars == {ESC, BEL, "[", "]", "\\", "P", "?", "2", "h", " ", NonAscii}

InitStrip ==
    /\ raw \in LinesOver(StripChars, MaxRaw)
    /\ once = NoResult
    /\ twice = NoResult

stripOther == << notifyVars, storeVars, lifeVars, passVars, promptVars,
                screenVars, formatVars, taskVars >>

\* prompt_test.go 25: stripAnsi(tt.input)
StripOnce ==
    /\ once = NoResult
    /\ once' = << stripAnsi(raw) >>
    /\ UNCHANGED << raw, twice, stripOther >>

\* stripAnsi applied to a stripped string
StripTwice ==
    /\ once # NoResult /\ twice = NoResult
    /\ twice' = << stripAnsi(once[1]) >>
    /\ UNCHANGED << raw, once, stripOther >>

StripNext == StripOnce \/ StripTwice

StripInit ==
    /\ IdleNotify /\ InitStore /\ IdleLife /\ sfile = NoStatus /\ IdlePass
    /\ IdlePrompt /\ InitStrip /\ IdleScreen /\ IdleFormat
    /\ IdleTasks

StripSpec == StripInit /\ [][StripNext]_vars

----------------------------------------------------------------------------
(* wrapper.go 287-334: the screen buffer.  addLine appends a stripped line, *)
(* updateStatus copies the end of the buffer into the record it writes.     *)
MaxLines == 100
StatusLines == 20
\* the lines that arrive: the n-th line that is not empty after stripping
\* reads "line n", so that no two of them are equal
MaxArrived == 102
PlainLine(n) == << "line", ToString(n) >>
ColouredLine(n) ==
    << ESC, "[", "3", "2", "m" >> \o PlainLine(n) \o << ESC, "[", "0", "m" >>
ResetOnly == << ESC, "[", "0", "m" >>
Blank == << " " >>
RawLines(n) == {PlainLine(n), ColouredLine(n), ResetOnly, Blank}

\* the last n elements of a sequence
LastOf(seq, n) ==
    IF Len(seq) > n THEN SubSeq(seq, Len(seq) - n + 1, Len(seq)) ELSE seq

\* mutant: a full buffer drops the new line
addLine_EvictsNewest(buffer, rawLine) ==
    IF stripAnsi(rawLine) = << >> THEN buffer
    ELSE IF Len(buffer) + 1 > MaxLines THEN buffer
    ELSE Append(buffer, stripAnsi(rawLine))

\* wrapper.go 288-302
addLine(buffer, rawLine) ==
    IF stripAnsi(rawLine) = << >> THEN buffer
    ELSE LastOf(Append(buffer, stripAnsi(rawLine)), MaxLines)

\* wrapper.go 306-318 and 326: the LastLines of the record
StatusLastLines(buffer) == LastOf(buffer, StatusLines)

screenOther == << notifyVars, storeVars, lifeVars, passVars, promptVars,
                 stripVars, formatVars, taskVars >>

\* wrapper.go 137-142: the reader hands a completed line to addLine
AddLineCall(rawLine) ==
    /\ stripAnsi(rawLine) # << >> => Len(arrived) < MaxArrived
    /\ screenBuffer' = addLine(screenBuffer, rawLine)
    /\ arrived' = IF stripAnsi(rawLine) = << >> THEN arrived
                  ELSE Append(arrived, stripAnsi(rawLine))
    /\ lastCall' = [op |-> "addLine", rawLine |-> rawLine,
                    before |-> screenBuffer]
    /\ UNCHANGED << lastLines, screenOther >>

\* wrapper.go 305-334: the record's last_lines; the other fields of the
\* record do not depend on the buffer
updateStatus ==
    /\ lastLines' = << StatusLastLines(screenBuffer) >>
    /\ lastCall' = [op |-> "updateStatus", rawLine |-> << >>,
                    before |-> screenBuffer]
    /\ UNCHANGED << screenBuffer, arrived, screenOther >>

ScreenNext ==
    \/ \E rawLine \in RawLines(Len(arrived) + 1) : AddLineCall(rawLine)
    \/ updateStatus

ScreenInit ==
    /\ IdleNotify /\ InitStore /\ IdleLife /\ sfile = NoStatus /\ IdlePass
    /\ IdlePrompt /\ IdleStrip /\ IdleScreen /\ IdleFormat
    /\ IdleTasks

ScreenSpec == ScreenInit /\ [][ScreenNext]_vars

----------------------------------------------------------------------------
(* The rendering functions applied to instants, spans and templates.        *)
MaxHours == 2
HourSamples == 0..MaxHours
MinuteSamples == {0, 1, 59}
SecondSamples == {0, 1, 59}
\* instants of the first day after the zero time, on and between seconds
Instants ==
    {Second * (3600 * h + 60 * m + s) + f :
        h \in HourSamples, m \in MinuteSamples, s \in SecondSamples,
        f \in 0..(Second - 1)} \ {0}
Templates ==
    {NoMsg, << "done" >>, StartTemplate, EndTemplate,
     << "{duration}", "at", "{time}", "{duration}" >>,
     << "{time}", "{time}" >>}

InitFormat ==
    /\ fNow \in Instants
    /\ fStart \in {0} \cup {i \in Instants : i <= fNow}
    /\ fMsg \in Templates
    /\ fOut = NoRender

formatOther == << notifyVars, storeVars, lifeVars, passVars, promptVars,
                 stripVars, screenVars, taskVars >>

\* notify.go 16: formatTimeJapanese(now)
formatTimeJapaneseCall ==
    /\ fOut = NoRender
    /\ fOut' = [op |-> "formatTimeJapanese", out |-> formatTimeJapanese(fNow)]
    /\ UNCHANGED << fNow, fStart, fMsg, formatOther >>

\* notify.go 20-21: formatDuration(now.Sub(taskStart))
formatDurationCall ==
    /\ fOut = NoRender
    /\ fOut' = [op |-> "formatDuration", out |-> formatDuration(fNow - fStart)]
    /\ UNCHANGED << fNow, fStart, fMsg, formatOther >>

\* notify_test.go 92: replacePlaceholders(tt.msg, tt.taskStart)
replacePlaceholdersCall ==
    /\ fOut = NoRender
    /\ fOut' = [op |-> "replacePlaceholders",
                out |-> replacePlaceholders(fMsg, fStart, fNow)]
    /\ UNCHANGED << fNow, fStart, fMsg, formatOther >>

FormatNext ==
    formatTimeJapaneseCall \/ formatDurationCall \/ replacePlaceholdersCall

FormatInit ==
    /\ IdleNotify /\ InitStore /\ IdleLife /\ sfile = NoStatus /\ IdlePass
    /\ IdlePrompt /\ IdleStrip /\ IdleScreen /\ InitFormat
    /\ IdleTasks

FormatSpec == FormatInit /\ [][FormatNext]_vars

----------------------------------------------------------------------------
(* wrapper.go 82-85, 115-187, 264-266: the output relay goroutine, one byte *)
(* of a chunk at a time, the status updater goroutine, which samples the    *)
(* current line and then writes its record, and the first and last record   *)
(* of runWrapper's own goroutine.                                           *)
LF == "\\n"
CR == "\\r"
MaxReceived == 3
RelayBytes == {LF, CR, ESC, ">", " ", "$"}

\* wrapper.go 320-330: the fields of the record that the caller chooses
StatusRecord(state, lastLine, matchedPrompt) ==
    [State |-> state, LastLine |-> lastLine, PromptMatched |-> matchedPrompt]

\* mutant: a carriage return starts the line again
processByte_CrResets(st, b) ==
    IF b = LF
    THEN [st EXCEPT !.screenBuffer = IF st.lineBuf # << >>
                                     THEN addLine(@, st.lineBuf) ELSE @,
                    !.lineBuf = << >>]
    ELSE IF b = CR
    THEN [st EXCEPT !.currentLine = stripAnsi(st.lineBuf), !.lineBuf = << >>]
    ELSE [st EXCEPT !.lineBuf = Append(@, b)]

\* wrapper.go 135-152: one byte of the chunk; st holds lineBuf, currentLine
\* and screenBuffer
processByte(st, b) ==
    IF b = LF
    THEN [st EXCEPT !.screenBuffer = IF st.lineBuf # << >>
                                     THEN addLine(@, st.lineBuf) ELSE @,
                    !.lineBuf = << >>]
    ELSE IF b = CR
    THEN [st EXCEPT !.currentLine = stripAnsi(st.lineBuf)]
    ELSE [st EXCEPT !.lineBuf = Append(@, b)]

\* mutant: the record says Running whatever the line
TickRecord_AlwaysRunning(l, custom, patterns) ==
    StatusRecord(StateRunning, l, matchPrompt(l, custom, patterns))

\* wrapper.go 176-187: the record of a tick that sampled l
TickRecord(l, custom, patterns) ==
    StatusRecord(IF matchPrompt(l, custom, patterns) THEN StateWaiting
                 ELSE StateRunning,
                 l, matchPrompt(l, custom, patterns))

relayOther == << notifyVars, storeVars, lifeVars, passVars, stripVars,
                formatVars, line, customPattern, defaultPatterns, matched,
                arrived, lastCall, lastLines, lockVars >>

\* the goroutines of wrapper.go 116 and 167 run from their start to the exit
\* of the process
TasksRun == runPc \in {"wait", "done"}

\* wrapper.go 82-85: the initial record, before the goroutines start
WrapperStarts ==
    /\ runPc = "init"
    /\ wrote' = [wrote EXCEPT !.init = << StatusRecord(StateRunning, << >>, FALSE) >>]
    /\ runPc' = "wait"
    /\ UNCHANGED << ptyBuf, lineBuf, received, relayPc, tickPc, currentLine,
                    tickLine, promptMatched, tickState, screenBuffer, relayOther >>

\* wrapper.go 121-132: a chunk is read from the pty
PtyRead(chunk) ==
    /\ TasksRun
    /\ relayPc = "read"
    /\ Len(received) + Len(chunk) <= MaxReceived
    /\ ptyBuf' = chunk
    /\ received' = received \o chunk
    /\ relayPc' = "process"
    /\ UNCHANGED << lineBuf, tickPc, runPc, wrote, currentLine, tickLine,
                    promptMatched, tickState, screenBuffer, relayOther >>

\* wrapper.go 135-152: the next byte of the chunk
RelayByte ==
    /\ relayPc = "process"
    /\ ptyBuf # << >>
    /\ LET st == processByte([lineBuf |-> lineBuf, currentLine |-> currentLine,
                              screenBuffer |-> screenBuffer], Head(ptyBuf))
       IN /\ lineBuf' = st.lineBuf
          /\ currentLine' = st.currentLine
          /\ screenBuffer' = st.screenBuffer
    /\ ptyBuf' = Tail(ptyBuf)
    /\ UNCHANGED << received, relayPc, tickPc, runPc, wrote, tickLine,
                    promptMatched, tickState, relayOther >>

\* wrapper.go 154-157: the chunk is processed, the current line is published
RelayPublish ==
    /\ relayPc = "process"
    /\ ptyBuf = << >>
    /\ currentLine' = stripAnsi(lineBuf)
    /\ relayPc' = "read"
    /\ UNCHANGED << ptyBuf, lineBuf, received, tickPc, runPc, wrote, tickLine,
                    promptMatched, tickState, screenBuffer, relayOther >>

\* wrapper.go 171-174: a tick samples the current line
TickSample ==
    /\ TasksRun
    /\ tickPc = "idle"
    /\ tickLine' = << currentLine >>
    /\ tickPc' = "sampled"
    /\ UNCHANGED << ptyBuf, lineBuf, received, relayPc, runPc, wrote,
                    currentLine, promptMatched, tickState, screenBuffer,
                    relayOther >>

\* wrapper.go 176-187: the tick classifies the sample and writes its record
TickUpdate ==
    /\ tickPc = "sampled"
    /\ LET rec == TickRecord(tickLine[1], customPattern,
                             promptPatterns(defaultPatterns))
       IN /\ promptMatched' = << rec.PromptMatched >>
          /\ tickState' = rec.State
          /\ wrote' = [wrote EXCEPT !.tick = << rec >>]
    /\ tickPc' = "idle"
    /\ UNCHANGED << ptyBuf, lineBuf, received, relayPc, runPc, currentLine,
                    tickLine, screenBuffer, relayOther >>

\* wrapper.go 265-266: cmd.Wait has returned, the last record
WrapperStops ==
    /\ runPc = "wait"
    /\ wrote' = [wrote EXCEPT !.exit = << StatusRecord(StateStopped, << >>, FALSE) >>]
    /\ runPc' = "done"
    /\ UNCHANGED << ptyBuf, lineBuf, received, relayPc, tickPc, currentLine,
                    tickLine, promptMatched, tickState, screenBuffer, relayOther >>

\* the relay of one wrapper, from its start to the return of cmd.Wait
RelayNext ==
    \/ WrapperStarts
    \/ \E chunk \in LinesOver(RelayBytes, MaxReceived) \ {<< >>} : PtyRead(chunk)
    \/ RelayByte
    \/ RelayPublish
    \/ WrapperStops

RelayInit ==
    /\ IdleNotify /\ InitStore /\ IdleLife /\ sfile = NoStatus /\ IdlePass
    /\ IdleText

RelaySpec == RelayInit /\ [][RelayNext]_vars

\* the records of one wrapper; the relay publishes the line of the input in
\* one step (ReadOutput), before, between or after the two steps of a tick
RecordNext ==
    \/ WrapperStarts
    \/ ReadOutput
    \/ TickSample
    \/ TickUpdate
    \/ WrapperStops

RecordSpec == PromptInit /\ [][RecordNext]_vars

----------------------------------------------------------------------------
(* wrapper.go 24-34: screenBuffer, lastActivity and currentLine, each with  *)
(* its sync.RWMutex, and the goroutines of runWrapper that use them.  A     *)
(* task is where it is in its loop plus the operations it has yet to do: a  *)
(* Lock, RLock, Unlock or RUnlock of a mutex, or a Read or Write of the     *)
(* variable the mutex belongs to.  A mutex is named for its variable.       *)
(* sync.RWMutex: Lock waits for the writer and the readers to leave, and    *)
(* from its call on no new reader is admitted.                              *)
Op(op, mu) == [op |-> op, mu |-> mu]

\* wrapper.go 105-107, 130-132
touchActivity ==
    << Op("Lock", "activityMu"), Op("Write", "activityMu"),
       Op("Unlock", "activityMu") >>
\* wrapper.go 295-301
addLineOps ==
    << Op("Lock", "bufferMu"), Op("Write", "bufferMu"), Op("Unlock", "bufferMu") >>
\* wrapper.go 146-148, 155-157
publishLine ==
    << Op("Lock", "currentLineMu"), Op("Write", "currentLineMu"),
       Op("Unlock", "currentLineMu") >>
\* mutant: the tick reads the current line without its lock
sampleLine_Unlocked == << Op("Read", "currentLineMu") >>
\* wrapper.go 172-174
sampleLine ==
    << Op("RLock", "currentLineMu"), Op("Read", "currentLineMu"),
       Op("RUnlock", "currentLineMu") >>
\* wrapper.go 306-313
updateStatusOps ==
    << Op("RLock", "bufferMu"), Op("Read", "bufferMu"), Op("RUnlock", "bufferMu"),
       Op("RLock", "activityMu"), Op("Read", "activityMu"),
       Op("RUnlock", "activityMu") >>

lockOther == << notifyVars, storeVars, lifeVars, passVars, promptVars,
               stripVars, screenVars, formatVars, relayVars >>

\* the task is between two calls
Between(t, phase) == tasks[t].phase = phase /\ tasks[t].ops = << >>
Begin(t, phase, ops) ==
    /\ tasks' = [tasks EXCEPT ![t] = [phase |-> phase, ops |-> ops]]
    /\ UNCHANGED << locks, lockOther >>
\* the goroutines have been started
TasksStarted == tasks["main"].phase \in {"wait", "stop"}

\* wrapper.go 83-85: lastActivity is set, then the initial updateStatus
MainInitialises ==
    /\ Between("main", "idle")
    /\ Begin("main", "init", << Op("Write", "activityMu") >> \o updateStatusOps)
\* wrapper.go 87-262: the go statements, then cmd.Wait
MainStartsTasks == Between("main", "init") /\ Begin("main", "wait", << >>)
\* wrapper.go 265-266: cmd.Wait returns, the final updateStatus
MainStops == Between("main", "wait") /\ Begin("main", "stop", updateStatusOps)
\* wrapper.go 100-107: input arrives
StdinReads == TasksStarted /\ Between("stdin", "idle") /\ Begin("stdin", "idle", touchActivity)
\* wrapper.go 121-132: a chunk of output arrives
RelayReads == TasksStarted /\ Between("relay", "idle") /\ Begin("relay", "bytes", touchActivity)
\* wrapper.go 137-142: a newline after a line that is not empty
RelayNewline == Between("relay", "bytes") /\ Begin("relay", "bytes", addLineOps)
\* wrapper.go 143-148: a carriage return
RelayCarriageReturn == Between("relay", "bytes") /\ Begin("relay", "bytes", publishLine)
\* wrapper.go 154-157: the end of the chunk
RelayChunkEnds == Between("relay", "bytes") /\ Begin("relay", "idle", publishLine)
\* wrapper.go 171-187: a tick
TickFires ==
    TasksStarted /\ Between("tick", "idle") /\ Begin("tick", "idle", sampleLine \o updateStatusOps)

\* the next operation of the task
NextOp(t) == IF tasks[t].ops = << >> THEN Op("none", "") ELSE Head(tasks[t].ops)
Advance(t) == tasks' = [tasks EXCEPT ![t].ops = Tail(@)]

\* sync.RWMutex.Lock is called: the writer is announced
LockCall(t) ==
    /\ NextOp(t).op = "Lock"
    /\ locks' = [locks EXCEPT ![NextOp(t).mu].pending = @ \cup {t}]
    /\ tasks' = [tasks EXCEPT ![t].ops = << Op("Acquire", NextOp(t).mu) >> \o Tail(@)]
    /\ UNCHANGED lockOther
CanAcquire(t) ==
    /\ NextOp(t).op = "Acquire"
    /\ locks[NextOp(t).mu].writer = ""
    /\ locks[NextOp(t).mu].readers = {}
\* sync.RWMutex.Lock returns
LockAcquire(t) ==
    /\ CanAcquire(t)
    /\ locks' = [locks EXCEPT ![NextOp(t).mu].writer = t,
                              ![NextOp(t).mu].pending = @ \ {t}]
    /\ Advance(t)
    /\ UNCHANGED lockOther
CanRLock(t) ==
    /\ NextOp(t).op = "RLock"
    /\ locks[NextOp(t).mu].writer = ""
    /\ locks[NextOp(t).mu].pending = {}
\* sync.RWMutex.RLock
RLock(t) ==
    /\ CanRLock(t)
    /\ locks' = [locks EXCEPT ![NextOp(t).mu].readers = @ \cup {t}]
    /\ Advance(t)
    /\ UNCHANGED lockOther
\* sync.RWMutex.Unlock
Unlock(t) ==
    /\ NextOp(t).op = "Unlock"
    /\ locks' = [locks EXCEPT ![NextOp(t).mu].writer = ""]
    /\ Advance(t)
    /\ UNCHANGED lockOther
\* sync.RWMutex.RUnlock
RUnlock(t) ==
    /\ NextOp(t).op = "RUnlock"
    /\ locks' = [locks EXCEPT ![NextOp(t).mu].readers = @ \ {t}]
    /\ Advance(t)
    /\ UNCHANGED lockOther
\* the task reads or writes the variable
Access(t) ==
    /\ NextOp(t).op \in {"Read", "Write"}
    /\ Advance(t)
    /\ UNCHANGED << locks, lockOther >>

LockNext ==
    \/ MainInitialises
    \/ MainStartsTasks
    \/ MainStops
    \/ StdinReads
    \/ RelayReads
    \/ RelayNewline
    \/ RelayCarriageReturn
    \/ RelayChunkEnds
    \/ TickFires
    \/ \E t \in Tasks : LockCall(t)
    \/ \E t \in Tasks : LockAcquire(t)
    \/ \E t \in Tasks : RLock(t)
    \/ \E t \in Tasks : Unlock(t)
    \/ \E t \in Tasks : RUnlock(t)
    \/ \E t \in Tasks : Access(t)

LockSpec == RelayInit /\ [][LockNext]_vars

----------------------------------------------------------------------------
(* Properties of the notification state machines, specification Spec.       *)

\* the observation a tick of the wrapper is about to consume
PendingObs == obsHist[wSeen + 1]
IsWrapperTick == wSeen' = wSeen + 1
Fires == Len(wFired') > Len(wFired)

\* C1: the standalone wrapper starts the notification command at a tick only
\* if the observed state equals the state of the previous tick, differs from
\* lastNotifiedState, and DebounceDelay has elapsed since stateChangeTime.
C1_NotifyOnlyStableUnnotifiedDue ==
    [][(IsWrapperTick /\ Fires) =>
         /\ PendingObs.state = lastState
         /\ PendingObs.state # lastNotifiedState
         /\ PendingObs.at - stateChangeTime >= DebounceDelay]_vars

C1_Witness ==
    /\ Len(wFired) = 1
    /\ wSeen = wFired[1].tick
    /\ stateChangeTime + DebounceDelay = obsHist[wSeen].at

\* the script of C2: Running, Running, Waiting, Waiting, Waiting, one
\* observation per tick, ticks exactly StatusInterval apart
C2Script == << StateRunning, StateRunning, StateWaiting, StateWaiting, StateWaiting >>
OnC2Script ==
    /\ Len(obsHist) <= Len(C2Script)
    /\ \A i \in 1..Len(obsHist) :
         /\ obsHist[i].state = C2Script[i]
         /\ obsHist[i].at = 1 + (i - 1) * StatusInterval
    /\ DebounceDelay = 2 * StatusInterval
    /\ config.EndMsg # NoMsg
    /\ config.Command # ""
C2Outcome ==
    IF wSeen < Len(C2Script)
    THEN wFired = << >>
    ELSE /\ Len(wFired) = 1
         /\ wFired[1].tick = Len(C2Script)
         /\ wFired[1].state = StateWaiting

C3_ChangeResetsTimerWithoutNotifying ==
    [][(IsWrapperTick /\ lastState # "" /\ PendingObs.state # lastState) =>
         /\ stateChangeTime' = PendingObs.at
         /\ lastState' = PendingObs.state
         /\ wFired' = wFired
         /\ lastNotifiedState' = lastNotifiedState]_vars

C3_Witness ==
    /\ wSeen >= 3
    /\ obsHist[wSeen].state # obsHist[wSeen - 1].state
    /\ stateChangeTime = obsHist[wSeen].at
    /\ stateChangeTime > obsHist[wSeen - 1].at
    /\ lastState = obsHist[wSeen].state

\* C4: the first tick of the wrapper records its observation as lastState and
\* lastNotifiedState, sets the task start time to now and fires nothing,
\* whether Running or Waiting is observed.
C4_WrapperFirstObservation ==
    wSeen = 1 =>
        /\ lastState = obsHist[1].state
        /\ lastNotifiedState = obsHist[1].state
        /\ TaskStartTime = obsHist[1].at
        /\ wFired = << >>

C4_Witness ==
    /\ wSeen = 1
    /\ lastState = StateWaiting
    /\ lastNotifiedState = StateWaiting
    /\ TaskStartTime = now

\* C5: the monitor's first observation of a pid without remembered state
\* records the observed state, records now as the pid's task start time and
\* invokes no command, whether Running or Waiting is observed.
C5_MonitorFirstObservation ==
    mSeen = 1 =>
        /\ lastStates = obsHist[1].state
        /\ taskStartTimes = obsHist[1].at
        /\ mFired = << >>

\* the run of identical observations that ends at tick k began at tick j
RunFrom(j, k) == \A l \in j..k : obsHist[l].state = obsHist[k].state

\* C6: every notification of the wrapper is backed by a run of identical
\* observations lasting at least DebounceDelay, so an excursion that returns
\* to the notified state earlier produces no notification.
C6_FlickerSuppressed ==
    \A i \in 1..Len(wFired) :
        LET k == wFired[i].tick
        IN \E j \in 1..k :
             /\ RunFrom(j, k)
             /\ obsHist[k].at - obsHist[j].at >= DebounceDelay

\* an excursion of two ticks, shorter than DebounceDelay, has come and gone
C6_Witness ==
    /\ wSeen = 4
    /\ config.Command # "" /\ config.EndMsg # NoMsg /\ config.StartMsg # NoMsg
    /\ config.MinDuration = 0
    /\ obsHist[1].state = StateRunning
    /\ obsHist[2].state = StateWaiting
    /\ obsHist[3].state = StateWaiting
    /\ obsHist[4].state = StateRunning
    /\ obsHist[3].at - obsHist[2].at < DebounceDelay
    /\ lastNotifiedState = StateRunning
    /\ wFired = << >>

Calls(fired) == [i \in 1..Len(fired) |-> [tick |-> fired[i].tick, state |-> fired[i].state]]

\* C7: fed the same observations, the wrapper's and the monitor's state
\* machines start the notification command at the same ticks for the same
\* transitions.
C7_WrapperMonitorEquivalent ==
    (wSeen = mSeen /\ config.MinDuration = 0) => Calls(wFired) = Calls(mFired)

----------------------------------------------------------------------------
(* Properties of the status store, specification StoreSpec.                 *)

IsPrefix(a, b) == Len(a) <= Len(b) /\ \A i \in 1..Len(a) : a[i] = b[i]

\* what reader r has read is (a prefix of) the content published by the
\* rename that was the latest when r opened the file
ReadsPublished(r, whole) ==
    /\ rd[r].atOpen >= 1
    /\ rd[r].atOpen <= Len(wr.committed)
    /\ IF whole THEN rd[r].data = wr.committed[rd[r].atOpen]
                ELSE IsPrefix(rd[r].data, wr.committed[rd[r].atOpen])

\* C8: whatever the interleaving of the writer's steps with the readers',
\* every reader obtains, and every successful read returns, the complete
\* content that the target held when the reader opened it: the complete
\* previous or the complete new content, never a partial or undecodable one.
C8_ReadersSeeOldOrNew ==
    \A r \in Readers :
        /\ rd[r].pc = "read" => ReadsPublished(r, FALSE)
        /\ rd[r].pc = "decode" =>
              ReadsPublished(r, TRUE) /\ Unmarshal(rd[r].data).ok
        /\ (rd[r].pc = "returned" /\ ~rd[r].err) =>
              /\ ReadsPublished(r, TRUE)
              /\ rd[r].status = Unmarshal(wr.committed[rd[r].atOpen]).status

\* one reader returns the previous content, opened before the rename, while
\* the other has the new one
C8_Witness ==
    /\ Len(wr.committed) = 2
    /\ rd["r1"].pc = "returned" /\ ~rd["r1"].err /\ rd["r1"].atOpen = 1
    /\ rd["r1"].status = Unmarshal(wr.committed[1]).status
    /\ rd["r2"].pc = "decode" /\ rd["r2"].atOpen = 2

\* C9: while atomicWriteFile has not renamed, and after it failed or the
\* process crashed before the rename, the target shows what it showed when
\* the call began: the previous complete content, or nothing.
C9_TargetUnchangedBeforeRename ==
    (wr.pc \in InFlight \cup {"crashed"} \/ (wr.pc = "returned" /\ wr.err)) =>
        /\ Stat(dir, inodes, Target) = wr.old
        /\ wr.old.exists => Unmarshal(wr.old.data).ok

\* the process crashed with a partly written temp file over an existing target
C9_Witness ==
    /\ wr.pc = "crashed"
    /\ wr.old.exists
    /\ Len(Content(dir, inodes, wr.tmpName)) \in 1..(Len(wr.data) - 1)
    /\ Stat(dir, inodes, Target) = wr.old

----------------------------------------------------------------------------
(* Properties of a write followed by a read, specification RoundTripSpec.   *)

ValidUTF8(s) == \A i \in 1..Len(s) : s[i] # InvalidByte
WellFormed(status) ==
    /\ ValidUTF8(status.State)
    /\ ValidUTF8(status.Command)
    /\ ValidUTF8(status.LastLine)
    /\ \A i \in 1..Len(status.LastLines) : ValidUTF8(status.LastLines[i])
\* time.Time.Equal: the same instant
SameInstant(a, b) == a.wall = b.wall
SameStatus(a, b) ==
    /\ a.State = b.State
    /\ a.Command = b.Command
    /\ a.PID = b.PID
    /\ SameInstant(a.StartTime, b.StartTime)
    /\ SameInstant(a.UpdatedAt, b.UpdatedAt)
    /\ a.LastLines = b.LastLines
    /\ a.LastLine = b.LastLine
    /\ a.PromptMatched = b.PromptMatched
    /\ a.IdleSeconds = b.IdleSeconds

\* the last write succeeded, and the reader opened the file after it and
\* read it to the end
ReadBack ==
    /\ wr.pc = "returned" /\ ~wr.err
    /\ rd["r1"].pc = "returned"
    /\ rd["r1"].atOpen = Len(wr.committed)
    /\ rd["r1"].data # << >>
ReadSucceeds == ~rd["r1"].err /\ rd["r1"].status # NoStatus
TargetReplaced ==
    /\ inodes[dir[Target]].mode = wr.perm
    /\ Content(dir, inodes, Target) = wr.data

FailedReturn(reader) ==
    /\ reader.pc = "returned"
    /\ reader.err
    /\ reader.status = NoStatus
    /\ reader.fd = 0
    /\ ~reader.locked

\* C12: readStatusWithLock returns an error and no record when the file is
\* absent and when its content is no JSON object; no step of it changes the
\* store, and at these returns the lock and the descriptor are released.
C12_ReadErrors ==
    [][\A r \in Readers : rd'[r] # rd[r] =>
         /\ dir' = dir /\ inodes' = inodes
         /\ (rd[r].pc \in {"idle", "returned"} /\ dir[Target] = 0) =>
               FailedReturn(rd'[r])
         /\ (rd[r].pc = "decode" /\ rd[r].data \in CorruptContents) =>
               FailedReturn(rd'[r])]_vars

\* the read of a file that holds no JSON object has returned its error, the
\* file is as it was
C12_Witness ==
    /\ rd["r1"].pc = "returned"
    /\ rd["r1"].data = NotJson
    /\ FailedReturn(rd["r1"])
    /\ Content(dir, inodes, Target) = NotJson
    /\ wr.seq = 0

----------------------------------------------------------------------------
(* Properties of the life of a wrapper process, specification LifeSpec.     *)

Writes == {i \in 1..Len(fileLog) : fileLog[i].op = "write"}

\* C13: after the command exits the wrapper writes a Stopped record and then
\* removes its status file, and nothing is done to the file afterwards: once
\* the wrapper process has exited, its status file does not exist.
C13_NoFileAfterExit == mainPc = "exited" => sfile = NoStatus

\* C14: no Running or Waiting record is written after the Stopped record,
\* and Stopped is written at most once.
C14_StoppedIsLastWrite ==
    \A i \in Writes, j \in Writes :
        (i < j) => fileLog[i].state # StateStopped

\* C15: the updated_at values of the records successively renamed into the
\* status file never decrease.
C15_UpdatedAtMonotone ==
    \A i \in Writes, j \in Writes :
        (i < j) => fileLog[i].at <= fileLog[j].at

\* C16: from the initial status write until the command exits, the status
\* file exists.
C16_FileExistsWhileChildAlive ==
    (child = "alive" /\ mainPc = "wait") => sfile # NoStatus

----------------------------------------------------------------------------
(* Properties of the consumers' passes, specification PassSpec.             *)

IsPass == outcome.op # "none"
Dead(f) == f.pid \notin alive
IsJson(n) == HasSuffix(n, JsonExt)

\* C17: whichever consumer made the pass, a file it read whose recorded pid
\* fails the liveness probe has been deleted by it.
C17_LazyReclamation ==
    IsPass =>
        \A n \in outcome.read : Dead(outcome.before[n]) => n \in outcome.removed

\* the files cleanupStaleFiles must remove, as claimed and as amended
Stale(f) == f.old \/ ~f.ok \/ Dead(f)
StaleAsRead(f) == f.old \/ (f.readable /\ (~f.ok \/ Dead(f)))
CleanupDone == outcome.op = "cleanup" /\ outcome.gone = {}
Untouched(n) == entries[n] = outcome.before[n]

FilesOfName(e, name) ==
    {n \in Listed(e) : \E pid \in 0..9 : n = getStatusFileWithPID(name, pid)}

\* C19: a lookup by base name N selects exactly the files N-<pid>.json.
C19_LookupSelectsExactName ==
    outcome.op \in {"show-name", "daemon-name"} =>
        outcome.selected = FilesOfName(outcome.before, outcome.name)

\* C20: the listing and the by-name monitor pass skip a file that vanished,
\* is unreadable or holds no JSON object, still process every other selected
\* file, and delete the files that hold no JSON object or record a dead pid.
C20_SkipAndReclaim ==
    outcome.op \in {"list", "daemon-name"} =>
        \A n \in outcome.selected :
            LET f == outcome.before[n]
            IN IF n \in outcome.gone \/ ~f.readable THEN n \notin outcome.read
               ELSE IF ~f.ok \/ Dead(f) THEN n \in outcome.removed
               ELSE n \in outcome.shown

----------------------------------------------------------------------------
(* Properties of prompt detection, specification PromptSpec.                *)

EndsWithGt(l) ==
    /\ Len(l) > 0
    /\ \/ l[Len(l)] = ">"
       \/ Len(l) > 1 /\ l[Len(l) - 1] = ">" /\ l[Len(l)] = " "
CustomMatches(l) == customPattern # << >> /\ MatchString(customPattern[1], l)
SomeMatches(patterns, l) ==
    \E i \in 1..Len(patterns) :
        Compiles(patterns[i]) /\ MatchString(patterns[i], l)
\* the pattern list the tick uses
TickPatterns ==
    IF Len(defaultPatterns) > 0 THEN defaultPatterns ELSE DefaultPromptPatterns

\* C21: matchPrompt is true exactly when the supplied custom pattern matches
\* the line, or a default pattern matches it, or the line ends with ">" or
\* "> " (so a custom pattern that does not match prevents nothing, and with
\* no pattern at all exactly the lines ending in ">" or "> " match); the tick
\* classifies Waiting iff matchPrompt is true on the line it sampled, else
\* Running.
C21_MatchPrompt ==
    /\ matched # NoResult =>
         (matched[1] <=> \/ CustomMatches(line)
                         \/ SomeMatches(defaultPatterns, line)
                         \/ EndsWithGt(line))
    /\ tickLine # NoResult =>
         /\ promptMatched[1] <=> \/ CustomMatches(tickLine[1])
                                 \/ SomeMatches(TickPatterns, tickLine[1])
                                 \/ EndsWithGt(tickLine[1])
         /\ tickState = IF promptMatched[1] THEN StateWaiting ELSE StateRunning

\* a supplied custom pattern does not match, the suffix decides, and the tick
\* that sampled the line classified Waiting
C21_Witness ==
    /\ matched = << TRUE >>
    /\ customPattern # << >> /\ ~CustomMatches(line)
    /\ ~SomeMatches(defaultPatterns, line)
    /\ tickLine = << line >>
    /\ tickState = StateWaiting

\* C22: an empty line never matches, whatever the custom pattern and the
\* default patterns, and a tick that samples an empty current line classifies
\* Running.
C22_EmptyLineNeverMatches ==
    /\ matched # NoResult /\ line = << >> => matched = << FALSE >>
    /\ tickLine = << << >> >> => tickState = StateRunning

----------------------------------------------------------------------------
(* Properties of stripAnsi, specification StripSpec.                        *)

PrintableOnly(str) == \A i \in 1..Len(str) : str[i] \notin {ESC, BEL, NonAscii}
\* a question mark, one digit or more, then h or l
HasModeText(str) ==
    \E i \in 1..Len(str), j \in 1..Len(str) :
        /\ str[i] = "?" /\ j > i + 1 /\ str[j] \in {"h", "l"}
        /\ \A k \in (i + 1)..(j - 1) : str[k] \in Digits
Untrimmed(str) == Len(str) > 0 /\ (str[1] = " " \/ str[Len(str)] = " ")

\* C23 (as claimed): for every string of printable ASCII characters stripAnsi
\* returns the string unchanged.
C23_Original == once # NoResult /\ PrintableOnly(raw) => once[1] = raw

\* C23 (amended): for a string of printable ASCII characters stripAnsi
\* returns the string unchanged exactly when it neither starts nor ends with
\* a space and holds no text of the form ?<digits>h or ?<digits>l.
C23_PrintableUnchanged ==
    once # NoResult /\ PrintableOnly(raw) =>
        (once[1] = raw <=> ~Untrimmed(raw) /\ ~HasModeText(raw))

\* a printable string with a question mark, a space inside and an h came
\* back unchanged
C23_Witness ==
    /\ once = << raw >>
    /\ PrintableOnly(raw)
    /\ \E i, j, k \in 1..Len(raw) :
         i < j /\ j < k /\ raw[i] = "?" /\ raw[j] = " " /\ raw[k] = "h"

\* C24: stripAnsi(stripAnsi(s)) = stripAnsi(s) for every input s.
C24_Idempotent == twice # NoResult => twice = once

----------------------------------------------------------------------------
(* Properties of the screen buffer, specification ScreenSpec.               *)

\* the most recent n of the lines that arrived, oldest first
MostRecent(n) ==
    [i \in 1..(IF Len(arrived) < n THEN Len(arrived) ELSE n) |->
        arrived[i + (IF Len(arrived) < n THEN 0 ELSE Len(arrived) - n)]]

\* C25: the buffer holds at most MaxLines entries, the most recent non-empty
\* stripped lines in arrival order; an addLine call whose line is empty after
\* stripping leaves the buffer as it was; the record updateStatus writes
\* carries at most 20 last_lines, the last 20 of the buffer in order.
C25_BufferBounded ==
    /\ Len(screenBuffer) <= 100
    /\ screenBuffer = MostRecent(100)
    /\ \A i \in 1..Len(screenBuffer) : screenBuffer[i] # << >>
    /\ lastCall.op = "addLine" /\ lastCall.rawLine \in {ResetOnly, Blank} =>
         screenBuffer = lastCall.before
    /\ lastCall.op = "updateStatus" =>
         /\ Len(lastLines[1]) <= 20
         /\ lastLines[1] = MostRecent(20)

\* more than MaxLines lines arrived, the oldest are gone, and the record
\* just written carries the twenty newest
C25_Witness ==
    /\ Len(arrived) > 100
    /\ Len(screenBuffer) = 100
    /\ screenBuffer[1] = PlainLine(Len(arrived) - 99)
    /\ lastCall.op = "updateStatus"
    /\ Len(lastLines[1]) = 20
    /\ lastLines[1][20] = PlainLine(Len(arrived))

----------------------------------------------------------------------------
(* Properties of the rendering functions, specification FormatSpec.         *)

Has(out, mark) == \E i \in 1..Len(out) : out[i] = mark
\* the number a decimal piece denotes
Number(piece) == CHOOSE n \in 0..(60 + 24 + MaxHours) : ToString(n) = piece
\* the number in front of a mark, 0 when the mark is absent
Component(out, mark) ==
    IF Has(out, mark)
    THEN Number(out[(CHOOSE i \in 1..Len(out) : out[i] = mark) - 1])
    ELSE 0
Marks(out) == {i \in 1..Len(out) : out[i] \in {HourMark, HoursMark, MinuteMark, SecondMark}}
\* the zero-suppression rule for a rendering with the given hour mark of a
\* span or time of day of t whole seconds
ZeroSuppressed(out, hourMark, t) ==
    LET h == Component(out, hourMark)
        m == Component(out, MinuteMark)
        sec == Component(out, SecondMark)
    IN  /\ Has(out, SecondMark) /\ out[Len(out)] = SecondMark
        /\ Has(out, MinuteMark) <=> (m > 0 \/ h > 0)
        /\ Has(out, hourMark) <=> h > 0
        /\ Len(out) = 2 * Cardinality(Marks(out))
        /\ h * 3600 + m * 60 + sec = t
        /\ m < 60 /\ sec < 60

\* C26: formatTimeJapanese and formatDuration render the seconds always, the
\* minutes iff minutes > 0 or hours > 0, the hours iff hours > 0; for a span
\* of t whole seconds the rendered h, m, s satisfy h*3600 + m*60 + s = t with
\* m < 60 and s < 60 (for a time, t is the second of the day).
C26_ZeroSuppression ==
    /\ fOut.op = "formatDuration" =>
         ZeroSuppressed(fOut.out, HoursMark, (fNow - fStart) \div Second)
    /\ fOut.op = "formatTimeJapanese" =>
         ZeroSuppressed(fOut.out, HourMark, (fNow \div Second) % 86400)

\* one hour, no minute and 59 seconds rendered with a zero minute
C26_Witness ==
    /\ fOut.op = "formatDuration"
    /\ fOut.out = << "1", HoursMark, "0", MinuteMark, "59", SecondMark >>

Placeholders == {"{time}", "{duration}"}
RECURSIVE Rendered(_)
Rendered(msg) ==
    IF msg = << >> THEN << >>
    ELSE (IF Head(msg) = "{time}" THEN formatTimeJapanese(fNow)
          ELSE IF Head(msg) = "{duration}"
          THEN IF fStart = 0 THEN << "0", SecondMark >>
               ELSE formatDuration(fNow - fStart)
          ELSE << Head(msg) >>) \o Rendered(Tail(msg))

\* C27: replacePlaceholders leaves a message without {time} and {duration}
\* unchanged, replaces every occurrence of each token, and renders
\* {duration} as the zero-seconds form when the task start is the zero time,
\* otherwise as formatDuration of now minus the task start.
C27_Placeholders ==
    fOut.op = "replacePlaceholders" =>
        /\ (\A i \in 1..Len(fMsg) : fMsg[i] \notin Placeholders) =>
               fOut.out = fMsg
        /\ \A i \in 1..Len(fOut.out) : fOut.out[i] \notin Placeholders
        /\ fOut.out = Rendered(fMsg)

\* a template with {duration} twice and {time} was rendered with the zero
\* task start: both durations read zero seconds
C27_Witness ==
    /\ fOut.op = "replacePlaceholders"
    /\ fStart = 0
    /\ fMsg = << "{duration}", "at", "{time}", "{duration}" >>
    /\ SubSeq(fOut.out, 1, 3) = << "0", SecondMark, "at" >>
    /\ SubSeq(fOut.out, Len(fOut.out) - 1, Len(fOut.out)) = << "0", SecondMark >>
    /\ Has(fOut.out, HourMark)

----------------------------------------------------------------------------
(* Further properties of the notification state machines, specifications    *)
(* Spec and CommandSpec.                                                    *)

\* the tick about to run finds its observation stable, not yet notified and
\* past the debounce delay
ConfirmationDue ==
    /\ lastState # ""
    /\ PendingObs.state = lastState
    /\ PendingObs.state # lastNotifiedState
    /\ PendingObs.at - stateChangeTime >= DebounceDelay
\* the task that just ended was shorter than the configured threshold
TaskTooShort ==
    /\ PendingObs.state = StateWaiting
    /\ config.MinDuration > 0
    /\ PendingObs.at - TaskStartTime < config.MinDuration
SkippedAt(k) == \E i \in 1..Len(wSkipped) : wSkipped[i].tick = k
NoFireAfterSkip ==
    \A k \in 1..wSeen, i \in 1..Len(wFired) :
        SkippedAt(k) => ~(wFired[i].tick >= k /\ RunFrom(k, wFired[i].tick))

\* C28: with a minimum duration configured, the tick at which a debounced
\* transition is due while the task that just ended was shorter than the
\* threshold invokes no command and still sets lastNotifiedState to the new
\* state, and no later tick of the same stable state invokes one, even when
\* the elapsed time has passed the threshold.
C28_SkipMarksNotified ==
    [][/\ (IsWrapperTick /\ ConfirmationDue /\ TaskTooShort) =>
            /\ wFired' = wFired
            /\ lastNotifiedState' = PendingObs.state
            /\ wSkipped' = Append(wSkipped, [tick |-> wSeen + 1,
                                             state |-> StateWaiting])
       /\ NoFireAfterSkip']_vars

\* a notification was skipped, the state stayed Waiting until the elapsed
\* time reached the threshold, and nothing has fired
C28_Witness ==
    /\ config.Command # "" /\ config.EndMsg # NoMsg
    /\ Len(wSkipped) = 1
    /\ wSeen > wSkipped[1].tick
    /\ RunFrom(wSkipped[1].tick, wSeen)
    /\ obsHist[wSeen].at - TaskStartTime >= config.MinDuration
    /\ lastNotifiedState = StateWaiting
    /\ wFired = << >>

\* the state of the wrapper's loop after k ticks, computed from the
\* observations alone
RECURSIVE WrapperAfter(_)
WrapperAfter(k) ==
    IF k = 0
    THEN [lastState |-> "", lastNotifiedState |-> "", stateChangeTime |-> 0,
          TaskStartTime |-> 0, notify |-> << >>, skipped |-> FALSE,
          assigned |-> << >>]
    ELSE WrapperStep([WrapperAfter(k - 1) EXCEPT !.notify = << >>,
                                                  !.skipped = FALSE,
                                                  !.assigned = << >>],
                     obsHist[k].state, obsHist[k].at, config)
\* the same for the monitor
RECURSIVE MonitorAfter(_)
MonitorAfter(k) ==
    IF k = 0
    THEN [lastStates |-> "", taskStartTimes |-> 0, notify |-> << >>]
    ELSE MonitorStep([MonitorAfter(k - 1) EXCEPT !.notify = << >>],
                     obsHist[k].state, obsHist[k].at, config)

TemplateOf(state) ==
    IF state = StateWaiting THEN config.EndMsg ELSE config.StartMsg
NoCallForEmptyTemplate ==
    /\ \A i \in 1..Len(wFired) : TemplateOf(wFired[i].state) # NoMsg
    /\ \A i \in 1..Len(mFired) : TemplateOf(mFired[i].state) # NoMsg

----------------------------------------------------------------------------
(* The exit code of the wrapper, specification ExitSpec.                    *)

\* runWrapper has written its Stopped record and then removed the status file
StoppedThenRemoved ==
    \E i \in 1..Len(fileLog), j \in 1..Len(fileLog) :
        /\ i < j
        /\ fileLog[i] = [op |-> "write", by |-> "main", state |-> StateStopped,
                         at |-> mainRec[1].UpdatedAt.wall]
        /\ fileLog[j] = LogRemove("main")

\* C31: the exit code Run returns is the exit code of the command when the
\* error of cmd.Wait carries one, 1 for any other error and 0 when the
\* command exited successfully; it is stored only after the Stopped record
\* was written and the status file removed.
C31_ExitCode ==
    /\ mainPc # "exited" => exitCode = 0
    /\ mainPc = "exited" =>
          /\ StoppedThenRemoved
          /\ waitErr.kind = "nil" => exitCode = 0
          /\ waitErr.kind = "ExitError" => exitCode = waitErr.code
          /\ waitErr.kind = "other" => exitCode = 1

\* the command exited with status 2 and the wrapper has exited with 2
C31_Witness ==
    /\ mainPc = "exited"
    /\ waitErr = ExitError(2)
    /\ exitCode = 2
    /\ StoppedThenRemoved

----------------------------------------------------------------------------
(* Properties of the output relay and of the records, specification         *)
(* RelaySpec.                                                               *)

\* the bytes the relay has processed
Processed == SubSeq(received, 1, Len(received) - Len(ptyBuf))
\* the bytes after the last newline of s
SinceNewline(s) ==
    LET newlines == {i \in 1..Len(s) : s[i] = LF}
    IN  IF newlines = {} THEN s ELSE SubSeq(s, Greatest(newlines) + 1, Len(s))
NotCR(b) == b # CR
Accumulated(s) == SelectSeq(SinceNewline(s), NotCR)

\* C32: in the output relay a carriage return never clears the line
\* accumulator and a newline always clears it: the accumulator holds the
\* bytes processed since the last newline without the carriage returns, and
\* after a chunk the published current line is stripAnsi of them, so it is
\* empty after a chunk that ends in a newline.
C32_CurrentLine ==
    /\ lineBuf = Accumulated(Processed)
    /\ (relayPc = "read" /\ received # << >>) =>
          /\ currentLine = stripAnsi(Accumulated(received))
          /\ received[Len(received)] = LF => currentLine = << >>

\* text, a carriage return and more text have been relayed: the current
\* line holds both texts
C32_Witness ==
    /\ relayPc = "read"
    /\ received = << "$", CR, ">" >>
    /\ currentLine = << "$", ">" >>

----------------------------------------------------------------------------
(* Properties of the records the wrapper writes, specification RecordSpec.  *)

Writers == {"init", "tick", "exit"}
TickPatternsInUse == promptPatterns(defaultPatterns)

\* C33: in every record the wrapper writes, state is Waiting exactly when
\* prompt_matched is true.  A tick's record takes last_line from the one
\* sample of the current line the tick took, prompt_matched is matchPrompt
\* of that last_line and state follows it; the initial Running record and
\* the final Stopped record have prompt_matched false and an empty
\* last_line.
C33_RecordsConsistent ==
    /\ \A by \in Writers :
          wrote[by] # NoRecord =>
              (wrote[by][1].State = StateWaiting <=> wrote[by][1].PromptMatched)
    /\ wrote.tick # NoRecord =>
          /\ wrote.tick[1].State \in ObservedStates
          /\ wrote.tick[1].PromptMatched =
                matchPrompt(wrote.tick[1].LastLine, customPattern, TickPatternsInUse)
          /\ tickPc = "idle" => wrote.tick[1].LastLine = tickLine[1]
    /\ wrote.init # NoRecord =>
          wrote.init[1] = [State |-> StateRunning, LastLine |-> << >>,
                           PromptMatched |-> FALSE]
    /\ wrote.exit # NoRecord =>
          wrote.exit[1] = [State |-> StateStopped, LastLine |-> << >>,
                           PromptMatched |-> FALSE]

\* a tick sampled the empty line, the relay then published a prompt, and the
\* tick wrote a Running record with the empty last_line; the first and the
\* last record are written too
C33_Witness ==
    /\ wrote.init # NoRecord /\ wrote.exit # NoRecord /\ wrote.tick # NoRecord
    /\ tickPc = "idle"
    /\ currentLine = << "r", ">" >>
    /\ matchPrompt(currentLine, customPattern, TickPatternsInUse)
    /\ wrote.tick[1] = [State |-> StateRunning, LastLine |-> << >>,
                        PromptMatched |-> FALSE]

----------------------------------------------------------------------------
(* Properties of the wrapper's locks, specification LockSpec.               *)

Reading(t, mu) == NextOp(t) = Op("Read", mu)
Writing(t, mu) == NextOp(t) = Op("Write", mu)
Holds(t, mu) == locks[mu].writer = t \/ t \in locks[mu].readers
\* the task waits in Lock or RLock
Blocked(t) ==
    \/ NextOp(t).op = "Acquire" /\ ~CanAcquire(t)
    \/ NextOp(t).op = "RLock" /\ ~CanRLock(t)
\* some task that is not blocked holds the mutex, or is about to get it
WillBeFreed(mu) ==
    \E u \in Tasks :
        \/ Holds(u, mu) /\ ~Blocked(u)
        \/ NextOp(u) = Op("Acquire", mu) /\ CanAcquire(u)

\* C34: once the goroutines are started, every read or write of the current
\* line, the activity timestamp and the screen buffer is done under the
\* variable's lock, a write under the exclusive lock; no write of a variable
\* is concurrent with a read or another write of it; no task holds two of
\* the locks at once, and a task that waits for a lock waits for a task
\* that does not wait.
C34_LockDiscipline ==
    /\ TasksStarted =>
          \A t \in Tasks, mu \in Mutexes :
              /\ Writing(t, mu) => locks[mu].writer = t
              /\ Reading(t, mu) => Holds(t, mu)
    /\ \A t \in Tasks, u \in Tasks, mu \in Mutexes :
          (t # u /\ Writing(t, mu)) => ~Writing(u, mu) /\ ~Reading(u, mu)
    /\ \A mu \in Mutexes :
          locks[mu].writer # "" => locks[mu].readers = {}
    /\ \A t \in Tasks : Cardinality({mu \in Mutexes : Holds(t, mu)}) <= 1
    /\ \A t \in Tasks : Blocked(t) => WillBeFreed(NextOp(t).mu)

\* the tick and the final updateStatus both read the screen buffer under the
\* shared lock while the relay waits in addLine for the exclusive lock and
\* the stdin task writes the activity timestamp
C34_Witness ==
    /\ Reading("tick", "bufferMu") /\ Reading("main", "bufferMu")
    /\ locks["bufferMu"].readers = {"tick", "main"}
    /\ Blocked("relay") /\ NextOp("relay") = Op("Acquire", "bufferMu")
    /\ Writing("stdin", "activityMu")

----------------------------------------------------------------------------
(* Properties of the stripped strings of the wrapper, specification         *)
(* RelaySpec.                                                               *)

\* the characters of the model whose code is in 32..126
InAsciiRange(c) == c \notin {ESC, BEL, NonAscii, LF, CR}
Clean(str) ==
    /\ \A i \in 1..Len(str) : InAsciiRange(str[i])
    /\ str # << >> => str[1] # " " /\ str[Len(str)] # " "

----------------------------------------------------------------------------
(* Properties of the standalone wrapper's tick loop, specifications Spec    *)
(* and LiveSpec.                                                            *)

FirstObservation == lastState = ""
RunningConfirmed == ConfirmationDue /\ PendingObs.state = StateRunning

\* C36: in the standalone wrapper the task start time is assigned at the
\* first observation and at the tick that confirms a debounced transition
\* to Running, with or without a start template; every other tick (a raw
\* change of state, a confirmed or suppressed transition to Waiting, a
\* Running spell shorter than the debounce) and every other step leaves it
\* as it is.
C36_TaskStartFrame ==
    [][IF IsWrapperTick /\ (FirstObservation \/ RunningConfirmed)
       THEN TaskStartTime' = PendingObs.at
       ELSE TaskStartTime' = TaskStartTime]_vars

\* with no start template: Running first, Waiting confirmed, a return to
\* Running confirmed at the fifth tick, which alone moved the task start
C36_Witness ==
    /\ config.StartMsg = NoMsg /\ config.Command # ""
    /\ wSeen = 5
    /\ obsHist[1].state = StateRunning
    /\ obsHist[3].state = StateWaiting
    /\ wWritten[4] = StateRunning
    /\ lastNotifiedState = StateRunning
    /\ TaskStartTime = obsHist[5].at
    /\ TaskStartTime > obsHist[1].at

\* the tick at which the last run of equal observations began
RunStart ==
    Least({j \in 1..Len(obsHist) : RunFrom(j, Len(obsHist))})
\* the observed state has been s for at least the debounce delay
StableFor(s) ==
    /\ obsHist # << >>
    /\ obsHist[Len(obsHist)].state = s
    /\ obsHist[Len(obsHist)].at - obsHist[RunStart].at >= DebounceDelay
\* the wrapper has settled on s: it has consumed every observation, s is
\* recorded as notified, and the run of s has seen at most one notification
SettledOn(s) ==
    /\ wSeen = Len(obsHist)
    /\ lastNotifiedState = s
    /\ Cardinality({i \in 1..Len(wFired) : wFired[i].tick >= RunStart}) <= 1

\* C37: the standalone debounce machine converges: if from some tick on the
\* observed state stays s and the ticks keep occurring, then eventually
\* lastNotifiedState = s, by a fired or a suppressed notification, and no
\* further notification fires while the state stays s.
C37_Converges ==
    \A s \in ObservedStates : <>[]StableFor(s) => <>[]SettledOn(s)

\* Waiting was observed for the debounce delay after a spell of Running and
\* the wrapper has settled on it with one notification
C37_Witness ==
    /\ StableFor(StateWaiting)
    /\ SettledOn(StateWaiting)
    /\ RunStart > 1
    /\ Len(obsHist) = MaxTicks
    /\ Len(wFired) = 1 /\ wFired[1].tick > RunStart

FiredStates == [i \in 1..Len(wFired) |-> wFired[i].state]
Alternates(seq) == \A i \in 1..(Len(seq) - 1) : seq[i] # seq[i + 1]

\* C38: the values the standalone wrapper assigns to lastNotifiedState, one
\* after the other, alternate between Running and Waiting; so with no
\* minimum duration and both templates set, the notifications alternate
\* between end (Waiting) and start (Running): no two in a row are of the
\* same kind.
C38_Alternation ==
    /\ \A i \in 1..Len(wAssigned) : wAssigned[i] \in ObservedStates
    /\ Alternates(wAssigned)
    /\ wAssigned # << >> => lastNotifiedState = wAssigned[Len(wAssigned)]
    /\ (config.MinDuration = 0 /\ config.StartMsg # NoMsg /\ config.EndMsg # NoMsg) =>
          /\ Alternates(FiredStates)
          /\ (config.Command # "" /\ wAssigned # << >>) =>
                FiredStates = Tail(wAssigned)

\* Running at first, then Waiting and Running again, each confirmed and
\* notified: end, then start
C38_Witness ==
    /\ config.MinDuration = 0 /\ config.Command # ""
    /\ config.StartMsg # NoMsg /\ config.EndMsg # NoMsg
    /\ wAssigned = << StateRunning, StateWaiting, StateRunning >>
    /\ FiredStates = << StateWaiting, StateRunning >>

\* the ticks so far whose observation was made at or after the state-change
\* timestamp
SinceChange == {j \in 1..wSeen : obsHist[j].at >= stateChangeTime}

----------------------------------------------------------------------------
(* Properties of the daemon's markers, specification DaemonSpec.            *)

IsMonitorCheck == mSeen' = mSeen + 1
PendingCheck == obsHist[mSeen + 1]
EndMessage == replacePlaceholders(config.EndMsg, taskStartTimes, PendingCheck.at)

\* C40: in the monitor a remembered "not_found" or "terminated" does not
\* count as no previous observation: when the pid's record is next observed
\* as Waiting, the end message is rendered and, unless it is empty, the
\* command is invoked with it; when it is next observed as Running, no
\* command is invoked and the pid's task start time stays as it is.
C40_MarkersAreStates ==
    [][(IsMonitorCheck /\ lastStates \in Markers) =>
          /\ lastStates' = PendingCheck.state
          /\ PendingCheck.state = StateWaiting =>
                /\ taskStartTimes' = taskStartTimes
                /\ mFired' = IF EndMessage = << >> THEN mFired
                             ELSE Append(mFired, [tick |-> mSeen + 1,
                                                  state |-> StateWaiting,
                                                  msg |-> EndMessage])
          /\ PendingCheck.state = StateRunning =>
                /\ mFired' = mFired
                /\ taskStartTimes' = taskStartTimes]_vars

\* the file of the pid was missing at first; its first record was Running,
\* which set no task start, and at its second, Waiting, the command got an
\* end message with a duration of zero
C40_Witness ==
    /\ config.EndMsg = EndTemplate
    /\ mSeen = 2
    /\ obsHist[1].state = StateRunning
    /\ lastStates = StateWaiting
    /\ taskStartTimes = 0
    /\ Len(mFired) = 1
    /\ mFired[1] = [tick |-> 2, state |-> StateWaiting,
                    msg |-> << "end", "0", SecondMark >>]

====
